---- MODULE Spec2Model ----
(***************************************************************************)
(* ShotTracker: shot scoring, session storage, the scoring form and the    *)
(* DOPE range table, modelled from the TypeScript sources.                 *)
(*                                                                         *)
(* JavaScript values that reach the scoring code are strings or numbers.   *)
(* A value is a record [t, n, s]: t is the typeof tag, n the number (for   *)
(* t = "number") and s the string as a sequence of one-character strings   *)
(* (for t = "string").  Numbers are integers; strings are built from the   *)
(* characters in Chars (no whitespace, no decimal point, no exponent).     *)
(***************************************************************************)
EXTENDS Integers, Sequences, FiniteSets

VARIABLES
    shotsIn,        \* argument of the calculateScore call under test
    scoreOut,       \* what that call produced (NoResult before the call)
    outcome,        \* "idle" | "returned" | "threw"
    formShots,      \* form.watch("shots") of the session form
    markersRemoved, \* useState(false) of ScoringSection
    toggleHist,     \* displayed values seen before the last consecutive toggles
    submitted,      \* sessionData built by sessionMutation.mutationFn
    formState,      \* "idle" | "open" | "saving" | "closed" (onToggle after a save)
    isEditing,      \* !!editSession
    db,             \* sessions table: id -> row or NoSession
    reqShots,       \* req.body.shots of the request handled last (NoShots if none)
    res,            \* the response written to it, and what the handler did
    dopeDb,         \* dope_ranges table of one card: id -> row or NoRange
    ranges,         \* useQuery data of DopeCardDetail (Undefined while loading)
    clients,        \* per browser: the DopeCardDetail's query data and editingRange
    exportArgs,     \* card, fetched ranges and clock of one downloadDopeCard
    content,        \* the lines generateAsciiTable returned (<<>> before the call)
    csvArgs,        \* sessions argument of one exportToCSV call, and the time zone
    csvContent,     \* csvContent it built (<<>> before the call)
    reply,          \* who sent the API request handled last, and what it was sent back
    dopeCards,      \* dope_cards table: id -> owner or NoUser
    dopeRanges,     \* dope_ranges table over all cards: id -> row or NoCardRange
    users,          \* users table: id -> row or NoAccount
    logins,         \* server-side session store: browser -> req.session
    dashboard,      \* Dashboard: the filters, the sessions query data, the last export
    display,        \* what the views and exports show for one elevation and windage
    photo,          \* SessionForm: photoFile, existingPhotoUrl and the saved photo_url
    uploads         \* the files of the uploads directory

vars == <<shotsIn, scoreOut, outcome, formShots, markersRemoved, toggleHist,
          submitted, formState, isEditing, db, reqShots, res, dopeDb, ranges,
          clients, exportArgs, content, csvArgs, csvContent,
          reply, dopeCards, dopeRanges, users, logins,
          dashboard, display, photo, uploads>>

scoreVars == <<shotsIn, scoreOut, outcome>>
formVars  == <<formShots, markersRemoved, toggleHist, submitted, formState, isEditing>>
storeVars == <<db, reqShots, res>>
dopeVars  == <<dopeDb, ranges>>
editVars  == <<clients>>
exportVars == <<exportArgs, content, csvArgs, csvContent>>
apiVars   == <<reply, dopeCards, dopeRanges>>
authVars  == <<users, logins>>
pageVars  == <<dashboard, display, photo, uploads>>

----------------------------------------------------------------------------
(* JavaScript values *)

Digits == <<"0", "1", "2", "3", "4", "5", "6", "7", "8", "9">>

Chars == {Digits[i] : i \in 1..10} \cup {"-", "V", "v", "M", "a", "b", "c"}

JSNum(k) == [t |-> "number", n |-> k, s |-> <<>>]

JSStr(str) == [t |-> "string", n |-> 0, s |-> str]

NaN == [nan |-> TRUE, n |-> 0]

Finite(k) == [nan |-> FALSE, n |-> k]

IsDigit(c) == \E i \in 1..10 : Digits[i] = c

DigitVal(c) == (CHOOSE i \in 1..10 : Digits[i] = c) - 1

RECURSIVE DigitsValue(_, _)
\* value of a non-empty all-digit string, most significant digit first
DigitsValue(str, acc) ==
    IF str = <<>> THEN acc
    ELSE DigitsValue(Tail(str), acc * 10 + DigitVal(Head(str)))

AllDigits(str) == str # <<>> /\ \A i \in 1..Len(str) : IsDigit(str[i])

\* Number(str) of ECMAScript for the strings of this model: "" is 0, an
\* optionally signed decimal integer is its value, anything else is NaN.
Number(str) ==
    IF str = <<>> THEN Finite(0)
    ELSE IF AllDigits(str) THEN Finite(DigitsValue(str, 0))
    ELSE IF Head(str) = "-" /\ AllDigits(Tail(str))
         THEN Finite(0 - DigitsValue(Tail(str), 0))
    ELSE NaN

RECURSIVE NatToString(_)
NatToString(k) ==
    IF k < 10 THEN <<Digits[k + 1]>>
    ELSE NatToString(k \div 10) \o <<Digits[(k % 10) + 1]>>

\* shot.toString(): a string is itself, a number its decimal notation
toString(v) ==
    IF v.t = "string" THEN v.s
    ELSE IF v.n < 0 THEN <<"-">> \o NatToString(0 - v.n)
    ELSE NatToString(v.n)

----------------------------------------------------------------------------
(* Score calculation: src/server/storage.ts, calculateScore *)

NumShots == 12

NoResult == [totalScore |-> -1, vCount |-> -1]

RECURSIVE ScoreLoop(_, _, _)
ScoreLoop(shots, totalScore, vCount) ==
    IF shots = <<>> THEN [totalScore |-> totalScore, vCount |-> vCount]
    ELSE LET shot == Head(shots) IN
         IF shot = JSStr(<<"V">>) \/ shot = JSStr(<<"v">>)
         THEN ScoreLoop(Tail(shots), totalScore + 5, vCount + 1)
         ELSE IF shot.t = "number"
         THEN ScoreLoop(Tail(shots), totalScore + shot.n, vCount)
         ELSE IF shot.t = "string" /\ ~Number(shot.s).nan
         THEN ScoreLoop(Tail(shots), totalScore + Number(shot.s).n, vCount)
         ELSE ScoreLoop(Tail(shots), totalScore, vCount)

RECURSIVE ScoreLoopVTen(_, _, _)
\* the README's variant of the loop: a V-ring hit scores 10 points
ScoreLoopVTen(shots, totalScore, vCount) ==
    IF shots = <<>> THEN [totalScore |-> totalScore, vCount |-> vCount]
    ELSE LET shot == Head(shots) IN
         IF shot = JSStr(<<"V">>) \/ shot = JSStr(<<"v">>)
         THEN ScoreLoopVTen(Tail(shots), totalScore + 10, vCount + 1)
         ELSE IF shot.t = "number"
         THEN ScoreLoopVTen(Tail(shots), totalScore + shot.n, vCount)
         ELSE IF shot.t = "string" /\ ~Number(shot.s).nan
         THEN ScoreLoopVTen(Tail(shots), totalScore + Number(shot.s).n, vCount)
         ELSE ScoreLoopVTen(Tail(shots), totalScore, vCount)

calculateScore_VTen(shots) == ScoreLoopVTen(shots, 0, 0)

calculateScore(shots) == ScoreLoop(shots, 0, 0)

----------------------------------------------------------------------------
(* Inputs of the score calculation *)

V == JSStr(<<"V">>)

Unfired == JSStr(<<>>)

\* the values the claims allow: numbers 0-10 (as numbers or as the strings
\* the form and the database hold), the bullseye marker, the empty string
AllowedValues ==
    {JSNum(0), JSNum(3), JSNum(10),
     JSStr(<<"0">>), JSStr(<<"4">>), JSStr(<<"1", "0">>), V, Unfired}

\* values the schema's z.union([z.string(), z.number()]) also lets through
OtherValues ==
    {JSStr(<<"v">>), JSStr(<<"M">>), JSStr(<<"a", "b", "c">>),
     JSStr(<<"1", "1">>), JSStr(<<"-", "3">>), JSNum(11), JSNum(-1)}

ShotValues == AllowedValues \cup OtherValues

Fill(len, v) == [i \in 1..len |-> v]

\* a run of k copies of a followed by copies of b
TwoRuns(len, k, a, b) == [i \in 1..len |-> IF i <= k THEN a ELSE b]

\* ["V","V","3","0","","2","V","1","4","0","5","V"]
ExampleShots ==
    <<V, V, JSStr(<<"3">>), JSStr(<<"0">>), Unfired, JSStr(<<"2">>), V,
      JSStr(<<"1">>), JSStr(<<"4">>), JSStr(<<"0">>), JSStr(<<"5">>), V>>

ScoreInputs ==
    {TwoRuns(NumShots, k, a, b) : k \in 0..NumShots, a \in ShotValues, b \in ShotValues}
    \cup {ExampleShots}

NoSubmission == [shots |-> <<>>, total_score |-> -1, v_count |-> -1]

IdleForm ==
    /\ formShots = Fill(NumShots, Unfired)
    /\ markersRemoved = FALSE
    /\ toggleHist = <<>>
    /\ submitted = NoSubmission
    /\ formState = "idle"
    /\ isEditing = FALSE

NoShots == <<[t |-> "undefined", n |-> 0, s |-> <<>>]>>

NoResponse == [status |-> 0, scored |-> FALSE]

IdleStore == db = <<>> /\ reqShots = NoShots /\ res = NoResponse

Undefined == [loaded |-> FALSE, data |-> <<>>]

IdleDope == dopeDb = <<>> /\ ranges = Undefined

IdleEdit == clients = <<>>

IdleExport == exportArgs = <<>> /\ content = <<>> /\ csvArgs = <<>> /\ csvContent = <<>>

IdleApi == reply = <<>> /\ dopeCards = <<>> /\ dopeRanges = <<>>

IdleAuth == users = <<>> /\ logins = <<>>

IdlePage == dashboard = <<>> /\ display = <<>> /\ photo = <<>> /\ uploads = {}

IdleRest == IdleEdit /\ IdleExport /\ IdleApi /\ IdleAuth /\ IdlePage

InitScore ==
    /\ shotsIn \in ScoreInputs
    /\ scoreOut = NoResult
    /\ outcome = "idle"
    /\ IdleForm /\ IdleStore /\ IdleDope /\ IdleRest

\* one call of calculateScore; the function has no throw statement, so every
\* call returns
CallCalculateScore ==
    /\ outcome = "idle"
    /\ scoreOut' = calculateScore(shotsIn)
    /\ outcome' = "returned"
    /\ UNCHANGED <<shotsIn, formVars, storeVars, dopeVars, editVars, exportVars, apiVars, authVars, pageVars>>

NextScore == CallCalculateScore

SpecScore == InitScore /\ [][NextScore]_vars

----------------------------------------------------------------------------
(* Claims about calculateScore *)

IsBullseye(v) == v = V

IsUnfired(v) == v = Unfired

IsNumeric(v) == \E k \in 0..10 : v = JSNum(k) \/ v = JSStr(NatToString(k))

NumericValue(v) == CHOOSE k \in 0..10 : v = JSNum(k) \/ v = JSStr(NatToString(k))

Allowed(v) == IsBullseye(v) \/ IsUnfired(v) \/ IsNumeric(v)

AllAllowed(shots) == \A i \in 1..Len(shots) : Allowed(shots[i])

Points(v) == IF IsBullseye(v) THEN 5 ELSE IF IsNumeric(v) THEN NumericValue(v) ELSE 0

RECURSIVE SumPoints(_)
SumPoints(shots) ==
    IF shots = <<>> THEN 0 ELSE Points(Head(shots)) + SumPoints(Tail(shots))

CountBullseyes(shots) == Cardinality({i \in 1..Len(shots) : IsBullseye(shots[i])})

AllNumericAtMostFive(shots) ==
    \A i \in 1..Len(shots) : IsNumeric(shots[i]) => NumericValue(shots[i]) <= 5

\* C3 as stated: for 12 allowed values (numeric 0-10, bullseye, unfired),
\* vCount <= 12 and totalScore <= 60.
C3_Original ==
    (outcome = "returned" /\ Len(shotsIn) = NumShots /\ AllAllowed(shotsIn)) =>
        (scoreOut.vCount <= 12 /\ scoreOut.totalScore <= 60)

\* C3 amended: for 12 allowed values vCount <= 12 and totalScore <= 120
\* (12 x 10); totalScore <= 60 when no numeric shot is above 5.
C3_ScoreBounds ==
    (outcome = "returned" /\ Len(shotsIn) = NumShots /\ AllAllowed(shotsIn)) =>
        /\ scoreOut.vCount <= 12
        /\ scoreOut.totalScore <= 120
        /\ (AllNumericAtMostFive(shotsIn) => scoreOut.totalScore <= 60)

C3_Witness ==
    /\ outcome = "returned"
    /\ shotsIn = Fill(NumShots, JSNum(10))
    /\ scoreOut = [totalScore |-> 120, vCount |-> 0]

\* a string that is not the marker, not empty and not a number ('M', 'abc')
Unclassifiable(v) ==
    /\ v.t = "string"
    /\ v.s # <<>>
    /\ v # V /\ v # JSStr(<<"v">>)
    /\ Number(v.s).nan

\* C5: a call of calculateScore with a shot value that is neither numeric,
\* the bullseye marker nor unfired ends in an explicit error.
C5_InvalidValueRaises ==
    (outcome # "idle" /\ \E i \in 1..Len(shotsIn) : Unclassifiable(shotsIn[i])) =>
        outcome = "threw"

----------------------------------------------------------------------------
(* The session form: src/unnamed/part_004 (SessionForm) and                 *)
(* src/client/src/components/scoring-section.tsx (ScoringSection)           *)

\* Number(x) of a shot value
ToNumber(v) == IF v.t = "number" THEN Finite(v.n) ELSE Number(v.s)

\* shots[i] === 'V' ? 5 : (Number(shots[i]) || 0)
MarkerValue(v) ==
    IF v = V THEN 5
    ELSE IF ToNumber(v).nan \/ ToNumber(v).n = 0 THEN 0 ELSE ToNumber(v).n

\* shots[i] === 'V'
MarkerIsV(v) == v = V

Max(a, b) == IF a >= b THEN a ELSE b

getAdjustedValues(shots, removed) ==
    LET base == calculateScore(shots)
        adjustedScore == Max(0, base.totalScore - MarkerValue(shots[1]) - MarkerValue(shots[2]))
        adjustedVCount == base.vCount - (IF MarkerIsV(shots[1]) THEN 1 ELSE 0)
                                      - (IF MarkerIsV(shots[2]) THEN 1 ELSE 0)
    IN  IF ~removed THEN [score |-> base.totalScore, vCount |-> base.vCount]
        ELSE [score |-> adjustedScore, vCount |-> Max(0, adjustedVCount)]

\* the <SelectItem> values of a shot field; "none" is turned into ''
SelectValues ==
    {Unfired, V} \cup {JSStr(NatToString(k)) : k \in 0..5}

\* text[] values a stored session can hold: every value the server schema
\* admits, after shots.map(shot => shot.toString())
StoredValues == {JSStr(toString(v)) : v \in ShotValues}

\* editSession.shots: the first two shots (the markers) range over all stored
\* values, the other ten are equal
EditSessionShots ==
    {[i \in 1..NumShots |-> IF i = 1 THEN a ELSE IF i = 2 THEN b ELSE c] :
        a \in StoredValues, b \in StoredValues,
        c \in {JSStr(<<"0">>), V, JSStr(<<"-", "3">>)}}

\* the shot fields the model edits: both markers and the last shot
EditPositions == {1, 2, NumShots}

\* sessionData of mutationFn with the displayed (adjusted) values
mutationFn_Displayed(shots) ==
    [shots |-> [i \in 1..Len(shots) |-> JSStr(toString(shots[i]))],
     total_score |-> getAdjustedValues(shots, markersRemoved).score,
     v_count |-> getAdjustedValues(shots, markersRemoved).vCount]

\* sessionData of sessionMutation.mutationFn: shots, total_score, v_count
mutationFn(shots) ==
    [shots |-> [i \in 1..Len(shots) |-> JSStr(toString(shots[i]))],
     total_score |-> calculateScore(shots).totalScore,
     v_count |-> calculateScore(shots).vCount]

IdleScore == shotsIn = <<>> /\ scoreOut = NoResult /\ outcome = "idle"

\* useForm defaults or form.reset(editSession); ScoringSection mounts with
\* markersRemoved = false
InitForm ==
    /\ isEditing \in BOOLEAN
    /\ formShots \in (IF isEditing THEN EditSessionShots ELSE {Fill(NumShots, Unfired)})
    /\ markersRemoved = FALSE
    /\ toggleHist = <<>>
    /\ submitted = NoSubmission
    /\ formState = "open"
    /\ IdleScore /\ IdleStore /\ IdleDope /\ IdleRest

\* field.onChange of the Select of shot i
SelectShot(i, v) ==
    /\ formState = "open"
    /\ formShots' = [formShots EXCEPT ![i] = v]
    /\ toggleHist' = <<>>
    /\ UNCHANGED <<markersRemoved, submitted, formState, isEditing>>
    /\ UNCHANGED <<scoreVars, storeVars, dopeVars, editVars, exportVars, apiVars, authVars, pageVars>>

\* handleToggleMarkers; toggleHist keeps what was displayed before each of
\* the last two toggles that no shot edit separates
ToggleMarkers ==
    /\ formState = "open"
    /\ markersRemoved' = ~markersRemoved
    /\ toggleHist' =
         LET shown == getAdjustedValues(formShots, markersRemoved) IN
         IF Len(toggleHist) < 2 THEN Append(toggleHist, shown)
         ELSE <<toggleHist[2], shown>>
    /\ UNCHANGED <<formShots, submitted, formState, isEditing>>
    /\ UNCHANGED <<scoreVars, storeVars, dopeVars, editVars, exportVars, apiVars, authVars, pageVars>>

\* onSubmit -> sessionMutation.mutate(data): mutationFn builds sessionData
SubmitForm ==
    /\ formState = "open"
    /\ submitted' = mutationFn(formShots)
    /\ formState' = "saving"
    /\ UNCHANGED <<formShots, markersRemoved, toggleHist, isEditing>>
    /\ UNCHANGED <<scoreVars, storeVars, dopeVars, editVars, exportVars, apiVars, authVars, pageVars>>

\* onSuccess: form.reset() unless editing, then onToggle() closes the form
\* (ScoringSection unmounts: nothing is displayed any more)
MutationSuccess ==
    /\ formState = "saving"
    /\ formShots' = IF isEditing THEN formShots ELSE Fill(NumShots, Unfired)
    /\ formState' = "closed"
    /\ toggleHist' = <<>>
    /\ UNCHANGED <<markersRemoved, submitted, isEditing>>
    /\ UNCHANGED <<scoreVars, storeVars, dopeVars, editVars, exportVars, apiVars, authVars, pageVars>>

\* onError: a toast; the form stays open and the payload is gone
MutationError ==
    /\ formState = "saving"
    /\ submitted' = NoSubmission
    /\ formState' = "open"
    /\ UNCHANGED <<formShots, markersRemoved, toggleHist, isEditing>>
    /\ UNCHANGED <<scoreVars, storeVars, dopeVars, editVars, exportVars, apiVars, authVars, pageVars>>

NextForm ==
    \/ \E i \in EditPositions, v \in SelectValues : SelectShot(i, v)
    \/ ToggleMarkers
    \/ SubmitForm
    \/ MutationSuccess
    \/ MutationError

SpecForm == InitForm /\ [][NextForm]_vars

----------------------------------------------------------------------------
(* Claims about marker removal *)

\* the points and the bullseye status calculateScore gives one shot
ScoredPoints(v) == calculateScore(<<v>>).totalScore

ScoredAsV(v) == calculateScore(<<v>>).vCount = 1

\* C6: with marker removal on, the displayed score is
\* max(0, totalScore - value(shot 1) - value(shot 2)) and the displayed V
\* count is max(0, vCount - bullseyes among the first two shots), with the
\* value and bullseye status calculateScore gives each shot.
C6_MarkerRemovalMatchesScore ==
    (formState = "open" /\ markersRemoved) =>
        LET base == calculateScore(formShots)
            shown == getAdjustedValues(formShots, markersRemoved)
        IN  /\ shown.score = Max(0, base.totalScore - ScoredPoints(formShots[1])
                                                    - ScoredPoints(formShots[2]))
            /\ shown.vCount = Max(0, base.vCount
                                     - (IF ScoredAsV(formShots[1]) THEN 1 ELSE 0)
                                     - (IF ScoredAsV(formShots[2]) THEN 1 ELSE 0))

\* C7: a toggle of marker removal changes neither the form's shots nor the
\* payload; the submitted shots, total_score and v_count are those of the
\* form's shots whatever the toggle; two toggles in a row show the values
\* shown before them.
C7_ToggleIsDisplayOnly ==
    /\ [][(markersRemoved' # markersRemoved) =>
            (formShots' = formShots /\ submitted' = submitted)]_vars
    /\ [](formState = "saving" =>
            /\ submitted.total_score = calculateScore(formShots).totalScore
            /\ submitted.v_count = calculateScore(formShots).vCount
            /\ submitted.shots = [i \in 1..NumShots |-> JSStr(toString(formShots[i]))])
    /\ [](Len(toggleHist) = 2 =>
            getAdjustedValues(formShots, markersRemoved) = toggleHist[1])

C7_Witness ==
    /\ formState = "saving"
    /\ markersRemoved
    /\ Len(toggleHist) = 2
    /\ toggleHist[1] # toggleHist[2]
    /\ getAdjustedValues(formShots, markersRemoved).score # submitted.total_score
    /\ getAdjustedValues(formShots, markersRemoved).vCount # submitted.v_count

----------------------------------------------------------------------------
(* Session storage behind the HTTP handlers: src/server/routes.ts          *)
(* (POST and PUT /api/sessions, JSON bodies) and src/server/storage.ts     *)
(* (DatabaseStorage.createSession, updateSession).  Of a session the model *)
(* keeps userId, name, shots, totalScore and vCount.                       *)

MaxSessions == 2

SessionIds == 1..MaxSessions

Users == {"u1", "u2"}

NoUser == "anonymous"

Names == {"a", "b"}

NoSession == [userId |-> NoUser, name |-> "", shots |-> <<>>, totalScore |-> -1, vCount |-> -1]

JSNull == [t |-> "object", n |-> 0, s |-> <<>>]

\* twelve shots, two of them not a score: 'abc' and the number 11
BadValueShots ==
    [i \in 1..NumShots |->
        IF i = 1 THEN JSStr(<<"a", "b", "c">>) ELSE IF i = 2 THEN JSNum(11) ELSE JSStr(<<"4">>)]

\* twelve entries, one of them null
NullShots == [i \in 1..NumShots |-> IF i = 3 THEN JSNull ELSE V]

\* the shots arrays of the requests
RequestShots ==
    {ExampleShots, BadValueShots, NullShots,
     Fill(NumShots - 1, V), Fill(NumShots + 1, JSStr(<<"5">>))}

\* keys of a request body; totalScore and vCount are not keys of
\* insertSessionSchema (omit), a client may send them all the same
BodyKeys == {"name", "shots", "totalScore", "vCount"}

MakeBody(keys, name, shots) ==
    [k \in keys |->
        CASE k = "name" -> <<name>>
          [] k = "shots" -> shots
          [] k = "totalScore" -> <<999>>
          [] k = "vCount" -> <<99>>]

Bodies ==
    {MakeBody(keys, name, shots) :
        keys \in {{}, {"name"}, {"shots"},
                  {"name", "shots", "totalScore", "vCount"}},
        name \in Names, shots \in RequestShots}

\* z.array(z.union([z.string(), z.number()])).length(12)
ShotsSchemaOk(shots) ==
    /\ Len(shots) = NumShots
    /\ \A i \in 1..Len(shots) : shots[i].t \in {"string", "number"}

\* insertSessionSchema.parse: name and shots are required; partial() makes
\* every key optional
SchemaOk(body, partial) ==
    /\ partial \/ {"name", "shots"} \subseteq DOMAIN body
    /\ "shots" \in DOMAIN body => ShotsSchemaOk(body["shots"])

\* what parse returns: a z.object keeps only the keys of the schema
Validated(body) == [k \in DOMAIN body \cap {"name", "shots"} |-> body[k]]

\* shots.map(shot => shot.toString())
ShotsToText(shots) == [i \in 1..Len(shots) |-> JSStr(toString(shots[i]))]

\* the row createSession inserts
createSession_Row(data, userId) ==
    [userId |-> userId,
     name |-> data["name"][1],
     shots |-> ShotsToText(data["shots"]),
     totalScore |-> calculateScore(data["shots"]).totalScore,
     vCount |-> calculateScore(data["shots"]).vCount]

\* updateSession that writes the shots and leaves the stored score alone
updateSession_KeepScore(row, data) ==
    [row EXCEPT
        !.name = IF "name" \in DOMAIN data THEN data["name"][1] ELSE @,
        !.shots = IF "shots" \in DOMAIN data THEN ShotsToText(data["shots"]) ELSE @]

\* updateSession that writes a score of zero when updateData has no shots
updateSession_ZeroScore(row, data) ==
    [row EXCEPT
        !.name = IF "name" \in DOMAIN data THEN data["name"][1] ELSE @,
        !.shots = IF "shots" \in DOMAIN data THEN ShotsToText(data["shots"]) ELSE @,
        !.totalScore = IF "shots" \in DOMAIN data
                       THEN calculateScore(data["shots"]).totalScore ELSE 0,
        !.vCount = IF "shots" \in DOMAIN data
                   THEN calculateScore(data["shots"]).vCount ELSE 0]

\* the row updateSession's .set(updateObj) leaves: the keys of updateData,
\* and totalScore and vCount when updateData has shots
updateSession_Row(row, data) ==
    [row EXCEPT
        !.name = IF "name" \in DOMAIN data THEN data["name"][1] ELSE @,
        !.shots = IF "shots" \in DOMAIN data THEN ShotsToText(data["shots"]) ELSE @,
        !.totalScore = IF "shots" \in DOMAIN data
                       THEN calculateScore(data["shots"]).totalScore ELSE @,
        !.vCount = IF "shots" \in DOMAIN data
                   THEN calculateScore(data["shots"]).vCount ELSE @]

BodyShots(body) == IF "shots" \in DOMAIN body THEN body["shots"] ELSE NoShots

InitStore ==
    /\ db = [id \in SessionIds |-> NoSession]
    /\ reqShots = NoShots
    /\ res = NoResponse
    /\ IdleScore /\ IdleForm /\ IdleDope /\ IdleRest

\* requireAuth and handleSessionCreation(req, res, false): what they do to
\* the table and the response
handleSessionCreation(user, body) ==
    /\ reqShots' = BodyShots(body)
    /\ IF user = NoUser
       THEN res' = [status |-> 401, scored |-> FALSE] /\ db' = db
       ELSE IF ~SchemaOk(body, FALSE)
       THEN res' = [status |-> 400, scored |-> FALSE] /\ db' = db
       ELSE \E id \in SessionIds :
              /\ db[id] = NoSession
              /\ db' = [db EXCEPT ![id] = createSession_Row(Validated(body), user)]
              /\ res' = [status |-> 201, scored |-> TRUE]

\* POST /api/sessions
PostSession(user, body) ==
    /\ handleSessionCreation(user, body)
    /\ UNCHANGED <<scoreVars, formVars, dopeVars, editVars, exportVars, apiVars, authVars, pageVars>>

\* requireAuth and handleSessionUpdate(req, res, false).
\* With no key to set the UPDATE statement has no SET clause: the query
\* either fails (caught: 400) or changes nothing.
handleSessionUpdate(user, id, body) ==
    /\ reqShots' = BodyShots(body)
    /\ IF user = NoUser
       THEN res' = [status |-> 401, scored |-> FALSE] /\ db' = db
       ELSE IF ~SchemaOk(body, TRUE)
       THEN res' = [status |-> 400, scored |-> FALSE] /\ db' = db
       ELSE LET data == Validated(body)
                scored == "shots" \in DOMAIN data
                found == db[id] # NoSession /\ db[id].userId = user
            IN  IF DOMAIN data = {}
                THEN /\ db' = db
                     /\ \E st \in {400, IF found THEN 200 ELSE 404} :
                            res' = [status |-> st, scored |-> FALSE]
                ELSE IF found
                THEN /\ db' = [db EXCEPT ![id] = updateSession_Row(db[id], data)]
                     /\ res' = [status |-> 200, scored |-> scored]
                ELSE /\ db' = db
                     /\ res' = [status |-> 404, scored |-> scored]

\* PUT /api/sessions/:id
PutSession(user, id, body) ==
    /\ handleSessionUpdate(user, id, body)
    /\ UNCHANGED <<scoreVars, formVars, dopeVars, editVars, exportVars, apiVars, authVars, pageVars>>

NextStore ==
    \/ \E user \in Users \cup {NoUser}, body \in Bodies : PostSession(user, body)
    \/ \E user \in Users \cup {NoUser}, id \in SessionIds, body \in Bodies :
          PutSession(user, id, body)

SpecStore == InitStore /\ [][NextStore]_vars

----------------------------------------------------------------------------
(* Claims about stored sessions *)

\* C2: in every state reached by create and update requests, each stored
\* session's totalScore and vCount are calculateScore of its stored shots.
C2_StoredScoreMatchesShots ==
    \A id \in SessionIds :
        db[id] # NoSession =>
            /\ db[id].totalScore = calculateScore(db[id].shots).totalScore
            /\ db[id].vCount = calculateScore(db[id].shots).vCount

\* a session that was created with one shots array, then updated with
\* another one and with a body that names totalScore and vCount
C2_Witness ==
    /\ res.status = 200
    /\ \E id \in SessionIds :
          /\ db[id] # NoSession
          /\ db[id].shots = ShotsToText(BadValueShots)
          /\ db[id].totalScore = 51
          /\ db[id].vCount = 0
    /\ \E id \in SessionIds :
          /\ db[id] # NoSession
          /\ db[id].shots = ShotsToText(ExampleShots)
          /\ db[id].totalScore = 35
          /\ db[id].vCount = 4

\* the claim's well-formed shots: exactly 12 entries, each a number 0-10,
\* the bullseye marker or empty
WellFormedShots(shots) ==
    /\ Len(shots) = NumShots
    /\ \A i \in 1..Len(shots) : shots[i].t \in {"string", "number"} /\ Allowed(shots[i])

\* C4: a create or update request (of a logged-in user) whose shots are not
\* well formed is answered 400 by validation, calculateScore is not run and
\* no session is created or modified.
C4_MalformedShotsRejected ==
    [][(reqShots' # NoShots /\ ~WellFormedShots(reqShots') /\ res'.status # 401) =>
          (res'.status = 400 /\ ~res'.scored /\ db' = db)]_vars

\* what the schema does reject: a wrong length or an entry that is neither
\* a string nor a number
C4_WrongLengthRejected ==
    [][(reqShots' # NoShots /\ ~ShotsSchemaOk(reqShots') /\ res'.status # 401) =>
          (res'.status = 400 /\ ~res'.scored /\ db' = db)]_vars

----------------------------------------------------------------------------
(* The DOPE card's range table:                                            *)
(* src/client/src/components/dope-card-detail.tsx (DopeCardDetail).        *)
(* Elevation and windage are numbers or null; a number is kept in          *)
(* thousandths of a MOA.                                                   *)

STANDARD_RANGES == <<100, 200, 300, 400, 500, 600, 700, 800, 900, 1000, 1200>>

MaxRanges == 2

RangeIds == 1..MaxRanges

Null == [present |-> FALSE, v |-> 0]

Moa(x) == [present |-> TRUE, v |-> x]

NoRange == [range |-> 0, elevation |-> Null, windage |-> Null]

NoData == [id |-> 0, range |-> 0, elevation |-> Null, windage |-> Null]

\* the rows written to dope_ranges: the first and the last standard
\* distance and one that is not standard
RangeInputs ==
    [range : {100, 150, 1200},
     elevation : {Null, Moa(0), Moa(1256)},
     windage : {Null, Moa(-500)}]

\* select('*').eq('dope_card_id', card.id).order('range', {ascending: true}):
\* the rows in ascending range, rows of equal range in any order
QueryResults(table) ==
    LET ids == {id \in RangeIds : table[id] # NoRange}
        n == Cardinality(ids)
    IN  {[i \in 1..n |->
            [id |-> q[i], range |-> table[q[i]].range,
             elevation |-> table[q[i]].elevation, windage |-> table[q[i]].windage]] :
         q \in {p \in [1..n -> ids] :
                   /\ \A i, j \in 1..n : i # j => p[i] # p[j]
                   /\ \A i \in 1..n - 1 : table[p[i]].range <= table[p[i + 1]].range}}

\* ranges?.find(r => r.range === standardRange) || null
FindRange(r, standardRange) ==
    LET hits == {i \in 1..Len(r.data) : r.data[i].range = standardRange}
    IN  IF ~r.loaded \/ hits = {} THEN NoData
        ELSE r.data[CHOOSE i \in hits : \A j \in hits : i <= j]

\* a reconciliation that makes one row per fetched entry
rangeData_PerEntry(r) ==
    [i \in 1..Len(r.data) |-> [range |-> r.data[i].range, data |-> r.data[i]]]

\* a reconciliation that drops an entry unless it has both values
rangeData_NeedsBoth(r) ==
    [i \in 1..Len(STANDARD_RANGES) |->
        LET found == FindRange(r, STANDARD_RANGES[i]) IN
        [range |-> STANDARD_RANGES[i],
         data |-> IF found.elevation.present /\ found.windage.present
                  THEN found ELSE NoData]]

\* const rangeData = STANDARD_RANGES.map(...)
rangeData(r) ==
    [i \in 1..Len(STANDARD_RANGES) |->
        [range |-> STANDARD_RANGES[i], data |-> FindRange(r, STANDARD_RANGES[i])]]

\* x.toFixed(2) of thousandths, in hundredths: the nearest, a tie away from 0
ToFixed2(x) == IF x < 0 THEN 0 - ((5 - x) \div 10) ELSE (x + 5) \div 10

\* a value cell: `${value.toFixed(2)} MOA`, or the dash
Cell(value) ==
    IF value.present THEN [dash |-> FALSE, text |-> ToFixed2(value.v)]
    ELSE [dash |-> TRUE, text |-> 0]

\* one <TableRow> of the table outside edit mode: the row and its cells are
\* styled as data (bg-white, text-slate-900) and Delete is offered when the
\* row has an entry
TableRow(row) ==
    [range |-> row.range,
     styledAsData |-> row.data # NoData,
     elevation |-> Cell(row.data.elevation),
     windage |-> Cell(row.data.windage),
     deleteShown |-> row.data # NoData]

InitDope ==
    /\ dopeDb = [id \in RangeIds |-> NoRange]
    /\ ranges = Undefined
    /\ IdleScore /\ IdleForm /\ IdleStore /\ IdleRest

\* queryFn of useQuery(['dope-ranges', card.id])
FetchRanges ==
    /\ ~ranges.loaded
    /\ \E q \in QueryResults(dopeDb) : ranges' = [loaded |-> TRUE, data |-> q]
    /\ UNCHANGED <<dopeDb, scoreVars, formVars, storeVars, editVars, exportVars, apiVars, authVars, pageVars>>

\* createRangeMutation: insert, then invalidateQueries refetches the list
CreateRange(data) ==
    /\ ranges.loaded
    /\ \E id \in RangeIds :
          /\ dopeDb[id] = NoRange
          /\ dopeDb' = [dopeDb EXCEPT ![id] = data]
    /\ \E q \in QueryResults(dopeDb') : ranges' = [loaded |-> TRUE, data |-> q]
    /\ UNCHANGED <<scoreVars, formVars, storeVars, editVars, exportVars, apiVars, authVars, pageVars>>

\* updateRangeMutation: update(data).eq('id', id), then the refetch
UpdateRange(id, data) ==
    /\ ranges.loaded
    /\ dopeDb[id] # NoRange
    /\ dopeDb' = [dopeDb EXCEPT ![id] = data]
    /\ \E q \in QueryResults(dopeDb') : ranges' = [loaded |-> TRUE, data |-> q]
    /\ UNCHANGED <<scoreVars, formVars, storeVars, editVars, exportVars, apiVars, authVars, pageVars>>

\* deleteRangeMutation: delete().eq('id', id), then the refetch
DeleteRange(id) ==
    /\ ranges.loaded
    /\ dopeDb[id] # NoRange
    /\ dopeDb' = [dopeDb EXCEPT ![id] = NoRange]
    /\ \E q \in QueryResults(dopeDb') : ranges' = [loaded |-> TRUE, data |-> q]
    /\ UNCHANGED <<scoreVars, formVars, storeVars, editVars, exportVars, apiVars, authVars, pageVars>>

NextDope ==
    \/ FetchRanges
    \/ \E data \in RangeInputs : CreateRange(data)
    \/ \E id \in RangeIds, data \in RangeInputs : UpdateRange(id, data)
    \/ \E id \in RangeIds : DeleteRange(id)

SpecDope == InitDope /\ [][NextDope]_vars

----------------------------------------------------------------------------
(* Claims about the reconciled range table *)

StandardDistances == <<100, 200, 300, 400, 500, 600, 700, 800, 900, 1000, 1200>>

Entries == {ranges.data[i] : i \in 1..Len(ranges.data)}

Matching(d) == {e \in Entries : e.range = d}

C9_RowCarriesItsEntry ==
    LET table == rangeData(ranges) IN
    \A i \in 1..Len(table) :
        LET row == table[i]
            shown == TableRow(row)
        IN  IF Matching(row.range) # {}
            THEN /\ row.data \in Matching(row.range)
                 /\ shown.elevation.dash = ~row.data.elevation.present
                 /\ shown.windage.dash = ~row.data.windage.present
                 /\ (row.data.elevation.present \/ row.data.windage.present)
                        => shown.styledAsData
            ELSE /\ row.data = NoData
                 /\ shown.elevation.dash /\ shown.windage.dash
                 /\ ~shown.styledAsData

\* the row of 1200 yards has an elevation and no windage, the row of 100
\* yards an elevation of 0 and a windage, the row of 200 yards nothing
C9_Witness ==
    /\ ranges.loaded
    /\ LET table == rangeData(ranges) IN
       /\ table[11].data.elevation = Moa(1256)
       /\ table[11].data.windage = Null
       /\ TableRow(table[11]).styledAsData
       /\ TableRow(table[11]).elevation = [dash |-> FALSE, text |-> 126]
       /\ TableRow(table[11]).windage.dash
       /\ TableRow(table[1]).elevation = [dash |-> FALSE, text |-> 0]
       /\ TableRow(table[1]).windage = [dash |-> FALSE, text |-> -50]
       /\ table[2].data = NoData

\* C10: a row is flagged as data exactly when its entry has an elevation or
\* a windage; an entry with neither value is flagged like a distance
\* without entry.
C10_EmptyEntryIsNoData ==
    LET table == rangeData(ranges) IN
    \A i \in 1..Len(table) :
        TableRow(table[i]).styledAsData =
            (table[i].data.elevation.present \/ table[i].data.windage.present)

----------------------------------------------------------------------------
(* Saving ranges from the DOPE card editor, two browsers on one card:      *)
(* src/client/src/components/dope-card-detail.tsx (handleEditRange,        *)
(* handleSaveRange, createRangeMutation, updateRangeMutation). The         *)
(* dope_ranges table has a primary key on id and no other uniqueness       *)
(* (src/shared/schema.ts 46-53, src/supabase/migrations).                  *)

Clients == {"c1", "c2"}

\* useState<RangeEditState | null>(null); id 0 stands for no id
NoEdit == [open |-> FALSE, id |-> 0, range |-> 0, elevation |-> Null, windage |-> Null]

\* the rows of the table whose Edit button is pressed: 100 and 1200 yards
EditRows == {1, 11}

\* what is typed into the elevation input: a number, or the field is cleared
TypedValues == {Null, Moa(1250)}

InitEdit ==
    /\ dopeDb = [id \in RangeIds |-> NoRange]
    /\ ranges = Undefined
    /\ clients = [c \in Clients |-> [ranges |-> Undefined, editingRange |-> NoEdit]]
    /\ IdleScore /\ IdleForm /\ IdleStore /\ IdleExport /\ IdleApi /\ IdleAuth /\ IdlePage

\* queryFn of useQuery(['dope-ranges', card.id]): the first load, and every
\* refetch (after invalidateQueries, or when the card is opened again
\* after its cached list was dropped)
LoadRanges(c) ==
    /\ \E q \in QueryResults(dopeDb) :
          clients' = [clients EXCEPT ![c].ranges = [loaded |-> TRUE, data |-> q]]
    /\ UNCHANGED <<dopeDb, ranges, scoreVars, formVars, storeVars, exportVars, apiVars, authVars, pageVars>>

\* handleEditRange that is not given the row's distance: a row without an
\* entry opens the editor on the fallback distance, 100
handleEditRange_Fallback(c, i) ==
    LET row == rangeData(clients[c].ranges)[i] IN
    /\ clients[c].ranges.loaded
    /\ ~(clients[c].editingRange.open /\ clients[c].editingRange.range = row.range)
    /\ clients' = [clients EXCEPT ![c].editingRange =
          IF row.data # NoData
          THEN [open |-> TRUE, id |-> row.data.id, range |-> row.data.range,
                elevation |-> row.data.elevation, windage |-> row.data.windage]
          ELSE [open |-> TRUE, id |-> 0, range |-> 100,
                elevation |-> Null, windage |-> Null]]
    /\ UNCHANGED <<dopeDb, ranges, scoreVars, formVars, storeVars, exportVars, apiVars, authVars, pageVars>>

\* handleEditRange(data || undefined, range), from the Edit button of a row
\* that is not being edited
handleEditRange(c, i) ==
    LET row == rangeData(clients[c].ranges)[i] IN
    /\ clients[c].ranges.loaded
    /\ ~(clients[c].editingRange.open /\ clients[c].editingRange.range = row.range)
    /\ clients' = [clients EXCEPT ![c].editingRange =
          IF row.data # NoData
          THEN [open |-> TRUE, id |-> row.data.id, range |-> row.data.range,
                elevation |-> row.data.elevation, windage |-> row.data.windage]
          ELSE [open |-> TRUE, id |-> 0, range |-> row.range,
                elevation |-> Null, windage |-> Null]]
    /\ UNCHANGED <<dopeDb, ranges, scoreVars, formVars, storeVars, exportVars, apiVars, authVars, pageVars>>

\* onChange of the elevation input: setEditingRange({...editingRange, elevation})
ChangeElevation(c, value) ==
    /\ clients[c].editingRange.open
    /\ clients[c].editingRange.elevation # value
    /\ clients' = [clients EXCEPT ![c].editingRange.elevation = value]
    /\ UNCHANGED <<dopeDb, ranges, scoreVars, formVars, storeVars, exportVars, apiVars, authVars, pageVars>>

\* the Cancel button: setEditingRange(null)
CancelEdit(c) ==
    /\ clients[c].editingRange.open
    /\ clients' = [clients EXCEPT ![c].editingRange = NoEdit]
    /\ UNCHANGED <<dopeDb, ranges, scoreVars, formVars, storeVars, exportVars, apiVars, authVars, pageVars>>

\* handleSaveRange and the mutation it starts, up to onSuccess
\* (setEditingRange(null)); the refetch that invalidateQueries asks for is a
\* later LoadRanges. With an id: update(data).eq('id', id); without:
\* insert({...data, dope_card_id}), the row gets a fresh id.
handleSaveRange(c) ==
    LET e == clients[c].editingRange
        data == [range |-> e.range, elevation |-> e.elevation, windage |-> e.windage]
    IN  /\ e.open
        /\ IF e.id # 0
           THEN dopeDb' = [dopeDb EXCEPT ![e.id] = data]
           ELSE \E id \in RangeIds :
                  /\ dopeDb[id] = NoRange
                  /\ \A other \in RangeIds : dopeDb[other] = NoRange => id <= other
                  /\ dopeDb' = [dopeDb EXCEPT ![id] = data]
        /\ clients' = [clients EXCEPT ![c].editingRange = NoEdit]
        /\ UNCHANGED <<ranges, scoreVars, formVars, storeVars, exportVars, apiVars, authVars, pageVars>>

NextEdit ==
    \/ \E c \in Clients : LoadRanges(c)
    \/ \E c \in Clients, i \in EditRows : handleEditRange(c, i)
    \/ \E c \in Clients, value \in TypedValues : ChangeElevation(c, value)
    \/ \E c \in Clients : CancelEdit(c)
    \/ \E c \in Clients : handleSaveRange(c)

SpecEdit == InitEdit /\ [][NextEdit]_vars

\* C11: whatever the interleaving of saves, no two rows of dope_ranges of
\* the card have the same distance.
C11_OneEntryPerDistance ==
    \A i, j \in RangeIds :
        (i # j /\ dopeDb[i] # NoRange /\ dopeDb[j] # NoRange) =>
            dopeDb[i].range # dopeDb[j].range

----------------------------------------------------------------------------
(* The DOPE card text export: src/client/src/pages/dope.tsx,               *)
(* generateAsciiTable inside downloadDopeCard. A string is the sequence of *)
(* its characters; the result is one string with "\n" between the lines.   *)

\* ch.repeat(n)
Repeat(ch, n) == [i \in 1..n |-> ch]

\* str.padStart(n): spaces in front up to length n, longer strings as they are
padStart(str, n) == IF Len(str) >= n THEN str ELSE Repeat(" ", n - Len(str)) \o str

\* a toFixed(1) that loses the sign
toFixed1_Unsigned(x) ==
    LET a == IF x < 0 THEN 0 - x ELSE x
        t == (a + 50) \div 100
    IN  NatToString(t \div 10) \o <<".">> \o <<Digits[(t % 10) + 1]>>

\* x.toFixed(1) of a value in thousandths: "-" when x < 0, then the nearest
\* tenth of |x|. (On a decimal tie the double nearest to x decides; the
\* values of RangeRows have none.)
toFixed1(x) ==
    LET a == IF x < 0 THEN 0 - x ELSE x
        t == (a + 50) \div 100
    IN  (IF x < 0 THEN <<"-">> ELSE <<>>)
            \o NatToString(t \div 10) \o <<".">> \o <<Digits[(t % 10) + 1]>>

RECURSIVE SortInsert(_, _)
\* where a stable sort puts r among the sorted rows: behind every row whose
\* range is not larger
SortInsert(sorted, r) ==
    IF sorted = <<>> THEN <<r>>
    ELSE IF Head(sorted).range <= r.range
         THEN <<Head(sorted)>> \o SortInsert(Tail(sorted), r)
         ELSE <<r>> \o sorted

RECURSIVE SortByRange(_)
\* [...ranges].sort((a, b) => a.range - b.range)
SortByRange(rs) ==
    IF rs = <<>> THEN <<>>
    ELSE SortInsert(SortByRange(SubSeq(rs, 1, Len(rs) - 1)), rs[Len(rs)])

divider == Repeat("=", 60)

minorDivider == Repeat("-", 60)

HeaderLine1 ==
    <<"|", " ", "D", "i", "s", "t", "a", "n", "c", "e", " ", "|", " ", "W",
      "i", "n", "d", "a", "g", "e", " ", "|", " ", "E", "l", "e", "v", "a",
      "t", "i", "o", "n", " ", "|">>

HeaderLine2 ==
    <<"|", " ", " ", " ", "(", "y", "d", "s", ")", " ", " ", "|", " ", " ",
      "(", "M", "O", "A", ")", " ", " ", "|", " ", " ", " ", "(", "M", "O",
      "A", ")", " ", " ", " ", "|">>

EmptyRowLine ==
    <<"|", " ", " ", " ", " ", " ", " ", " ", " ", " ", " ", "|", " ", " ",
      " ", " ", " ", " ", " ", " ", " ", "|", " ", " ", " ", " ", " ", " ",
      " ", " ", " ", " ", " ", "|">>

NoDataLine ==
    <<"|", " ", " ", " ", " ", "(", "N", "o", " ", "r", "a", "n", "g", "e",
      " ", "d", "a", "t", "a", " ", "a", "v", "a", "i", "l", "a", "b", "l",
      "e", ")", " ", " ", " ", " ", "|">>

\* a data row with elevation in the second cell and windage in the third
dataRow_ElevationFirst(range) ==
    LET distance == padStart(toString(JSNum(range.range)), 6)
        windage == IF range.windage.present
                   THEN padStart(toFixed1(range.windage.v), 6) ELSE padStart(<<>>, 6)
        elevation == IF range.elevation.present
                     THEN padStart(toFixed1(range.elevation.v), 7) ELSE padStart(<<>>, 7)
    IN  <<"|">> \o distance \o <<" ", " ", "|">> \o elevation \o <<" ", " ", "|">>
            \o windage \o <<" ", " ", "|", "\n">>

\* `|${distance}  |${windage}  |${elevation}  |\n`
dataRow(range) ==
    LET distance == padStart(toString(JSNum(range.range)), 6)
        windage == IF range.windage.present
                   THEN padStart(toFixed1(range.windage.v), 6) ELSE padStart(<<>>, 6)
        elevation == IF range.elevation.present
                     THEN padStart(toFixed1(range.elevation.v), 7) ELSE padStart(<<>>, 7)
    IN  <<"|">> \o distance \o <<" ", " ", "|">> \o windage \o <<" ", " ", "|">>
            \o elevation \o <<" ", " ", "|", "\n">>

RECURSIVE dataRows(_)
\* for (const range of sortedRanges) content += ...
dataRows(sortedRanges) ==
    IF sortedRanges = <<>> THEN <<>>
    ELSE dataRow(Head(sortedRanges)) \o dataRows(Tail(sortedRanges))

generateAsciiTable(card, rs, now) ==
    LET title == <<"D", "O", "P", "E", " ", "C", "A", "R", "D", ":", " ">>
                    \o card.rifle \o <<" ", "-", " ">> \o card.calibre
        subtitle == <<"C", "a", "r", "d", " ", "N", "a", "m", "e", ":", " ">> \o card.name
        nl == <<"\n">>
    IN  divider \o nl
        \o padStart(title, (60 + Len(title)) \div 2) \o nl
        \o padStart(subtitle, (60 + Len(subtitle)) \div 2) \o nl
        \o divider \o nl \o nl
        \o minorDivider \o nl
        \o HeaderLine1 \o nl
        \o HeaderLine2 \o nl
        \o minorDivider \o nl
        \o (IF Len(rs) > 0
            THEN dataRows(SortByRange(rs))
            ELSE EmptyRowLine \o nl \o NoDataLine \o nl \o EmptyRowLine \o nl)
        \o minorDivider \o nl \o nl
        \o <<"G", "e", "n", "e", "r", "a", "t", "e", "d", ":", " ">> \o now \o nl
        \o <<"S", "h", "o", "t", "T", "r", "a", "c", "k", "e", "r", " ",
             "P", "r", "o", " ", "-", " ", "P", "r", "e", "c", "i", "s",
             "i", "o", "n", " ", "S", "h", "o", "o", "t", "i", "n", "g",
             " ", "L", "o", "g", "g", "e", "r">>
        \o nl

\* the card whose export is asked for
ExportCards ==
    {[name |-> <<"a">>, rifle |-> <<"M", "4">>, calibre |-> <<"3", "0", "8">>]}

\* new Date().toLocaleString() at the time of the download
Clock ==
    {<<"1", "/", "2", "/", "2", "0", "2", "5", ",", " ", "1", "0", ":", "0",
       "0", ":", "0", "0", " ", "A", "M">>}

MaxExportRows == 2

\* the rows GET /api/dope-cards/:cardId/ranges can answer with: a standard
\* distance at each end and one that is not standard, each value absent,
\* zero, negative, with one decimal or with three
RangeRows ==
    [range : {100, 150, 1200},
     elevation : {Null, Moa(0), Moa(12500), Moa(1256)},
     windage : {Null, Moa(-500)}]

ExportRanges == UNION {[1..n -> RangeRows] : n \in 0..MaxExportRows}

InitExport ==
    /\ exportArgs \in [card : ExportCards, ranges : ExportRanges, now : Clock]
    /\ content = <<>>
    /\ csvArgs = <<>> /\ csvContent = <<>>
    /\ IdleScore /\ IdleForm /\ IdleStore /\ IdleDope /\ IdleEdit /\ IdleApi /\ IdleAuth /\ IdlePage

\* const content = generateAsciiTable(card, ranges) of downloadDopeCard
downloadDopeCard ==
    /\ content = <<>>
    /\ content' = generateAsciiTable(exportArgs.card, exportArgs.ranges, exportArgs.now)
    /\ UNCHANGED <<exportArgs, csvArgs, csvContent>>
    /\ UNCHANGED <<scoreVars, formVars, storeVars, dopeVars, editVars, apiVars, authVars, pageVars>>

NextExport == downloadDopeCard

SpecExport == InitExport /\ [][NextExport]_vars

----------------------------------------------------------------------------
(* Claims about the text export. The exported text is read back the way a  *)
(* reader of the file would: split into lines, a line into cells at the    *)
(* column separators, a cell trimmed and parsed.                           *)

\* str.split(ch): the pieces between the occurrences of ch
Split(str, ch) ==
    LET idx == {i \in 1..Len(str) : str[i] = ch}
        n == Cardinality(idx)
        at(k) == IF k = 0 THEN 0
                 ELSE IF k = n + 1 THEN Len(str) + 1
                 ELSE CHOOSE p \in idx : Cardinality({q \in idx : q < p}) = k - 1
    IN  [k \in 1..n + 1 |-> SubSeq(str, at(k - 1) + 1, at(k) - 1)]

RECURSIVE TrimStart(_)
TrimStart(str) == IF str # <<>> /\ Head(str) = " " THEN TrimStart(Tail(str)) ELSE str

RECURSIVE TrimEnd(_)
TrimEnd(str) ==
    IF str # <<>> /\ str[Len(str)] = " " THEN TrimEnd(SubSeq(str, 1, Len(str) - 1)) ELSE str

Trim(str) == TrimEnd(TrimStart(str))

Unparsable == [present |-> TRUE, v |-> -999999999]

\* a cell read as a MOA value in thousandths: blank is absent, digits "."
\* digit with an optional "-" is a number
ParseMoa(cell) ==
    LET t == Trim(cell)
        neg == t # <<>> /\ Head(t) = "-"
        u == IF neg THEN Tail(t) ELSE t
        n == Len(u)
    IN  IF t = <<>> THEN Null
        ELSE IF n >= 3 /\ u[n - 1] = "." /\ AllDigits(SubSeq(u, 1, n - 2)) /\ IsDigit(u[n])
        THEN LET tenths == DigitsValue(SubSeq(u, 1, n - 2), 0) * 10 + DigitVal(u[n])
             IN  Moa(IF neg THEN 0 - tenths * 100 ELSE tenths * 100)
        ELSE Unparsable

ExportLines == Split(content, "\n")

\* the lines between the rule under the header and the rule that closes
\* the table
BodyLines ==
    LET ls == ExportLines
        close == CHOOSE k \in 10..Len(ls) :
                    ls[k] = minorDivider /\ \A j \in 10..k - 1 : ls[j] # minorDivider
    IN  SubSeq(ls, 10, close - 1)

TableHeader == SubSeq(ExportLines, 7, 8)

\* the body lines that start with a distance cell
DistanceRows ==
    LET body == BodyLines IN
    SelectSeq(body, LAMBDA l : Len(Split(l, "|")) >= 2 /\ AllDigits(Trim(Split(l, "|")[2])))

RowDistance(line) == DigitsValue(Trim(Split(line, "|")[2]), 0)

SeparatorOffsets(line) == {i - 1 : i \in {j \in 1..Len(line) : line[j] = "|"}}

Exported == content # <<>>

\* C12: the exported table has exactly one distance row for each standard
\* distance 100..1200 whatever the entries are, and with no entries it also
\* shows the "No range data available" line; it never has zero distance rows.
C12_OneRowPerStandardDistance ==
    Exported =>
        /\ \A i \in 1..Len(StandardDistances) :
              Cardinality({k \in 1..Len(DistanceRows) :
                              RowDistance(DistanceRows[k]) = StandardDistances[i]}) = 1
        /\ \A k \in 1..Len(DistanceRows) :
              \E i \in 1..Len(StandardDistances) :
                  RowDistance(DistanceRows[k]) = StandardDistances[i]
        /\ exportArgs.ranges = <<>> =>
              \E k \in 1..Len(BodyLines) : BodyLines[k] = NoDataLine

\* C13: the two header lines and every distance row have their column
\* separators at the same character offsets, and every value cell of a
\* distance row is a number or blank.
C13_ColumnsAligned ==
    Exported =>
        /\ \A k \in 1..Len(DistanceRows) :
              /\ SeparatorOffsets(DistanceRows[k]) = SeparatorOffsets(TableHeader[1])
              /\ SeparatorOffsets(DistanceRows[k]) = SeparatorOffsets(TableHeader[2])
        /\ \A k \in 1..Len(DistanceRows) :
              LET cells == Split(DistanceRows[k], "|") IN
              /\ Len(cells) = 5
              /\ ParseMoa(cells[3]) # Unparsable
              /\ ParseMoa(cells[4]) # Unparsable

\* the i-th original row in the order of the export: ascending distance,
\* rows of equal distance in their original order
Original(i) == SortByRange(exportArgs.ranges)[i]

\* the value a cell shows for a stored value: the nearest tenth
Tenth(value) ==
    IF ~value.present THEN Null
    ELSE Moa(IF value.v < 0 THEN 0 - (((0 - value.v) + 50) \div 100) * 100
             ELSE ((value.v + 50) \div 100) * 100)

OneDecimal(value) == value.present => value.v % 100 = 0

\* C15: when every value of the exported rows has one decimal place, the
\* cells of the k-th data row, split at the separators and parsed, are the
\* distance, the windage and the elevation (or their absence) of the k-th
\* original row.
C15_RoundTrip ==
    (/\ Exported
     /\ \A i \in 1..Len(exportArgs.ranges) :
           OneDecimal(exportArgs.ranges[i].elevation) /\ OneDecimal(exportArgs.ranges[i].windage))
    => /\ Len(exportArgs.ranges) > 0 => Len(BodyLines) = Len(exportArgs.ranges)
       /\ \A k \in 1..Len(exportArgs.ranges) :
             LET cells == Split(BodyLines[k], "|") IN
             /\ Len(cells) = 5
             /\ Number(Trim(cells[2])) = Finite(Original(k).range)
             /\ ParseMoa(cells[3]) = Original(k).windage
             /\ ParseMoa(cells[4]) = Original(k).elevation

\* two rows of the same distance, one with both values and one with none
C15_Witness ==
    /\ Exported
    /\ exportArgs.ranges =
          <<[range |-> 150, elevation |-> Null, windage |-> Null],
            [range |-> 150, elevation |-> Moa(12500), windage |-> Moa(-500)]>>
    /\ Len(BodyLines) = 2
    /\ Split(BodyLines[1], "|")[3] = Repeat(" ", 8)
    /\ Trim(Split(BodyLines[2], "|")[4]) = <<"1", "2", ".", "5">>

----------------------------------------------------------------------------
(* The CSV export of sessions: src/client/src/lib/exportUtils.ts,          *)
(* exportToCSV. A session is a row of the sessions table as the client     *)
(* reads it; its numbers are kept in thousandths, a nullable column is a   *)
(* [present, v] record.                                                    *)

headers ==
    <<<<"D", "a", "t", "e">>,
      <<"N", "a", "m", "e">>,
      <<"R", "i", "f", "l", "e">>,
      <<"C", "a", "l", "i", "b", "r", "e">>,
      <<"B", "u", "l", "l", "e", "t", " ", "W", "e", "i", "g", "h", "t", " ", "(", "g", "r", ")">>,
      <<"D", "i", "s", "t", "a", "n", "c", "e", " ", "(", "y", "a", "r", "d", "s", ")">>,
      <<"E", "l", "e", "v", "a", "t", "i", "o", "n", " ", "(", "M", "O", "A", ")">>,
      <<"W", "i", "n", "d", "a", "g", "e", " ", "(", "M", "O", "A", ")">>,
      <<"T", "o", "t", "a", "l", " ", "S", "c", "o", "r", "e">>,
      <<"V", " ", "C", "o", "u", "n", "t">>,
      <<"S", "h", "o", "t", " ", "1">>,
      <<"S", "h", "o", "t", " ", "2">>,
      <<"S", "h", "o", "t", " ", "3">>,
      <<"S", "h", "o", "t", " ", "4">>,
      <<"S", "h", "o", "t", " ", "5">>,
      <<"S", "h", "o", "t", " ", "6">>,
      <<"S", "h", "o", "t", " ", "7">>,
      <<"S", "h", "o", "t", " ", "8">>,
      <<"S", "h", "o", "t", " ", "9">>,
      <<"S", "h", "o", "t", " ", "1", "0">>,
      <<"S", "h", "o", "t", " ", "1", "1">>,
      <<"S", "h", "o", "t", " ", "1", "2">>,
      <<"N", "o", "t", "e", "s">>>>

Real(x) == [present |-> TRUE, v |-> x]

NullText == [present |-> FALSE, s |-> <<>>]

Text(str) == [present |-> TRUE, s |-> str]

\* str.includes(ch)
Includes(str, ch) == \E i \in 1..Len(str) : str[i] = ch

RECURSIVE DoubleQuotes(_)
\* field.replace(/"/g, '""')
DoubleQuotes(str) ==
    IF str = <<>> THEN <<>>
    ELSE (IF Head(str) = "\"" THEN <<"\"", "\"">> ELSE <<Head(str)>>)
            \o DoubleQuotes(Tail(str))

\* an escaping that wraps the field and leaves its quotes single
escapeField_Wrap(field) ==
    IF Includes(field, ",") \/ Includes(field, "\"") \/ Includes(field, "\n")
    THEN <<"\"">> \o field \o <<"\"">>
    ELSE field

\* the callback of row.map: every field of a row is a string
escapeField(field) ==
    IF Includes(field, ",") \/ Includes(field, "\"") \/ Includes(field, "\n")
    THEN <<"\"">> \o DoubleQuotes(field) \o <<"\"">>
    ELSE field

RECURSIVE Join(_, _)
\* array.join(sep)
Join(strs, sep) ==
    IF strs = <<>> THEN <<>>
    ELSE IF Len(strs) = 1 THEN strs[1]
    ELSE strs[1] \o sep \o Join(Tail(strs), sep)

\* the digits of the thousandths behind the point, without trailing zeros
Fraction(f) ==
    IF f % 100 = 0 THEN <<Digits[(f \div 100) + 1]>>
    ELSE IF f % 10 = 0 THEN <<Digits[(f \div 100) + 1], Digits[((f \div 10) % 10) + 1]>>
    ELSE <<Digits[(f \div 100) + 1], Digits[((f \div 10) % 10) + 1], Digits[(f % 10) + 1]>>

\* Number.prototype.toString of x thousandths: 0 is "0", 12500 is "12.5"
numberToString(x) ==
    LET a == IF x < 0 THEN 0 - x ELSE x IN
    (IF x < 0 THEN <<"-">> ELSE <<>>)
        \o NatToString(a \div 1000)
        \o (IF a % 1000 = 0 THEN <<>> ELSE <<".">> \o Fraction(a % 1000))

\* value ? value.toString() : '', which also blanks a 0
optionalToString_Falsy(value) ==
    IF ~value.present \/ value.v = 0 THEN <<>> ELSE numberToString(value.v)

\* value?.toString() || '': the text of a number is never empty
optionalToString(value) ==
    IF ~value.present THEN <<>> ELSE numberToString(value.v)

\* text || ''
orEmpty(text) == IF text.present THEN text.s ELSE <<>>

\* new Date(session.date).toLocaleDateString() in the en-US locale, for a
\* date column 'yyyy-mm-dd': the date is read as midnight UTC, so a browser
\* west of Greenwich shows the day before
toLocaleDateString(date, west) ==
    LET d == IF west THEN date.d - 1 ELSE date.d IN
    NatToString(date.m) \o <<"/">> \o NatToString(d) \o <<"/">> \o NatToString(date.y)

\* a row that leaves the notes out when there are none
csvRow_SkipNotes(session, west) ==
    <<toLocaleDateString(session.date, west),
      orEmpty(session.name), orEmpty(session.rifle), orEmpty(session.calibre),
      optionalToString(session.bullet_weight), optionalToString(session.distance),
      optionalToString(session.elevation), optionalToString(session.windage),
      optionalToString(session.total_score), optionalToString(session.v_count)>>
        \o session.shots
        \o (IF session.notes.present THEN <<session.notes.s>> ELSE <<>>)

\* sessions.map(session => [...]); shots is never null in the table, and
\* shot?.toString() || '' of a string is the string
csvRow(session, west) ==
    <<toLocaleDateString(session.date, west),
      orEmpty(session.name), orEmpty(session.rifle), orEmpty(session.calibre),
      optionalToString(session.bullet_weight), optionalToString(session.distance),
      optionalToString(session.elevation), optionalToString(session.windage),
      optionalToString(session.total_score), optionalToString(session.v_count)>>
        \o session.shots
        \o <<orEmpty(session.notes)>>

\* csvContent
exportToCSV(sessions, west) ==
    Join(<<Join(headers, <<",">>)>>
            \o [k \in 1..Len(sessions) |->
                  LET row == csvRow(sessions[k], west) IN
                  Join([j \in 1..Len(row) |-> escapeField(row[j])], <<",">>)],
         <<"\n">>)

\* the characters of the text fields: one that needs no escaping and the
\* three that do
CsvAlphabet == {"a", ",", "\"", "\n"}

MaxTextLen == 2

\* the note He said, "good group"
GoodGroup ==
    <<"H", "e", " ", "s", "a", "i", "d", ",", " ", "\"", "g", "o", "o", "d",
      " ", "g", "r", "o", "u", "p", "\"">>

Texts == UNION {[1..n -> CsvAlphabet] : n \in 0..MaxTextLen} \cup {GoodGroup}

\* the shots column of a session: the entries of the form as text
ExampleText == [i \in 1..NumShots |-> toString(ExampleShots[i])]

BaseSession ==
    [date |-> [y |-> 2025, m |-> 1, d |-> 2],
     name |-> Text(<<"a">>), rifle |-> Text(<<"M", "4">>),
     calibre |-> Text(<<"3", "0", "8">>),
     bullet_weight |-> Real(168000), distance |-> Real(600000),
     elevation |-> Real(12250), windage |-> Real(-500),
     shots |-> ExampleText,
     total_score |-> Real(35000), v_count |-> Real(4000),
     notes |-> NullText]

\* rows the sessions table can hold: name and notes over Texts (notes may
\* be null); elevation and windage null, 0 or a value, the NOT NULL numbers
\* 0 or a value; a session without a shot fired
CsvSessions ==
    {[BaseSession EXCEPT !.name = Text(n), !.notes = t] :
        n \in Texts, t \in {Text(x) : x \in Texts} \cup {NullText}}
    \cup
    {[BaseSession EXCEPT !.bullet_weight = bw, !.distance = di, !.elevation = el,
                         !.windage = wi, !.total_score = ts, !.v_count = vc] :
        bw \in {Real(0), Real(168000)}, di \in {Real(0), Real(600000)},
        el \in {Null, Real(0), Real(12250)}, wi \in {Null, Real(0), Real(-500)},
        ts \in {Real(0), Real(35000)}, vc \in {Real(0), Real(4000)}}
    \cup
    {[BaseSession EXCEPT !.shots = [i \in 1..NumShots |-> <<>>],
                         !.total_score = Real(0), !.v_count = Real(0)]}

PairSessions ==
    {BaseSession,
     [BaseSession EXCEPT !.name = Text(GoodGroup), !.notes = Text(<<"\n">>)],
     [BaseSession EXCEPT !.elevation = Null, !.windage = Real(0)]}

\* the sessions argument: no session, one session, two sessions
CsvLists ==
    {<<>>} \cup {<<s>> : s \in CsvSessions} \cup {<<s, t>> : s \in PairSessions, t \in PairSessions}

InitCsv ==
    /\ csvArgs \in [sessions : CsvLists, west : BOOLEAN]
    /\ csvContent = <<>>
    /\ exportArgs = <<>> /\ content = <<>>
    /\ IdleScore /\ IdleForm /\ IdleStore /\ IdleDope /\ IdleEdit /\ IdleApi /\ IdleAuth /\ IdlePage

\* one call of exportToCSV(sessions)
CallExportToCSV ==
    /\ csvContent = <<>>
    /\ csvContent' = exportToCSV(csvArgs.sessions, csvArgs.west)
    /\ UNCHANGED <<exportArgs, content, csvArgs>>
    /\ UNCHANGED <<scoreVars, formVars, storeVars, dopeVars, editVars, apiVars, authVars, pageVars>>

NextCsv == CallExportToCSV

SpecCsv == InitCsv /\ [][NextCsv]_vars

----------------------------------------------------------------------------
(* Claims about the CSV export. The exported text is read back by the      *)
(* rules of RFC 4180: a comma or a line break is a separator when an even  *)
(* number of quotes precedes it; a field that starts with a quote has its  *)
(* outer quotes removed and its doubled quotes made single.                *)

\* the pieces of str between the positions of cuts
SplitAt(str, cuts) ==
    LET n == Cardinality(cuts)
        at(k) == IF k = 0 THEN 0
                 ELSE IF k = n + 1 THEN Len(str) + 1
                 ELSE CHOOSE p \in cuts : Cardinality({q \in cuts : q < p}) = k - 1
    IN  [k \in 1..n + 1 |-> SubSeq(str, at(k - 1) + 1, at(k) - 1)]

\* the positions of ch in str that are outside quotes
Separators(str, ch) ==
    LET quotes == {i \in 1..Len(str) : str[i] = "\""} IN
    {i \in 1..Len(str) : str[i] = ch /\ Cardinality({q \in quotes : q < i}) % 2 = 0}

RECURSIVE Undouble(_)
Undouble(str) ==
    IF str = <<>> THEN <<>>
    ELSE IF Len(str) >= 2 /\ str[1] = "\"" /\ str[2] = "\""
         THEN <<"\"">> \o Undouble(SubSeq(str, 3, Len(str)))
         ELSE <<Head(str)>> \o Undouble(Tail(str))

Unquote(field) ==
    IF Len(field) >= 2 /\ Head(field) = "\"" /\ field[Len(field)] = "\""
    THEN Undouble(SubSeq(field, 2, Len(field) - 1))
    ELSE field

\* the records of the text, each the sequence of its fields as exported
RawRecords(text) ==
    LET recs == SplitAt(text, Separators(text, "\n")) IN
    [k \in 1..Len(recs) |-> SplitAt(recs[k], Separators(recs[k], ","))]

\* the records of the text, each the sequence of its field values
CsvParse(text) ==
    LET raw == RawRecords(text) IN
    [k \in 1..Len(raw) |-> [j \in 1..Len(raw[k]) |-> Unquote(raw[k][j])]]

CsvExported == csvContent # <<>>

NeedsQuotes(field) == \E i \in 1..Len(field) : field[i] \in {",", "\"", "\n"}

\* C16: an exported field is the original wrapped in quotes with its quotes
\* doubled exactly when the original has a comma, a quote or a line break,
\* and the original as it is otherwise; parsing the export gives back the
\* original field values of every session.
C16_EscapingRoundTrips ==
    CsvExported =>
        LET raw == RawRecords(csvContent)
            parsed == CsvParse(csvContent)
        IN  /\ Len(raw) = Len(csvArgs.sessions) + 1
            /\ \A k \in 1..Len(csvArgs.sessions) :
                  LET row == csvRow(csvArgs.sessions[k], csvArgs.west) IN
                  /\ Len(raw[k + 1]) = Len(row)
                  /\ parsed[k + 1] = row
                  /\ \A j \in 1..Len(row) :
                        IF NeedsQuotes(row[j])
                        THEN /\ Head(raw[k + 1][j]) = "\""
                             /\ raw[k + 1][j][Len(raw[k + 1][j])] = "\""
                             /\ Len(raw[k + 1][j]) =
                                   Len(row[j]) + 2
                                     + Cardinality({i \in 1..Len(row[j]) : row[j][i] = "\""})
                        ELSE raw[k + 1][j] = row[j]

\* the session named He said, "good group" with a line break as its notes
C16_Witness ==
    /\ CsvExported
    /\ Len(csvArgs.sessions) = 2
    /\ csvArgs.sessions[2].name = Text(GoodGroup)
    /\ csvArgs.sessions[2].notes = Text(<<"\n">>)
    /\ CsvParse(csvContent)[3][2] = GoodGroup
    /\ RawRecords(csvContent)[3][2] =
          <<"\"">> \o SubSeq(GoodGroup, 1, 9) \o <<"\"", "\"">> \o SubSeq(GoodGroup, 11, 20)
              \o <<"\"", "\"", "\"">>
    /\ RawRecords(csvContent)[3][23] = <<"\"", "\n", "\"">>

\* a field read as a number in thousandths: blank is absent; digits with an
\* optional "-" and an optional point and up to three decimals are a number
ParseNumber(field) ==
    LET neg == field # <<>> /\ Head(field) = "-"
        u == IF neg THEN Tail(field) ELSE field
        dots == {i \in 1..Len(u) : u[i] = "."}
        dot == IF dots = {} THEN Len(u) + 1 ELSE CHOOSE i \in dots : TRUE
        whole == SubSeq(u, 1, dot - 1)
        decimals == SubSeq(u, dot + 1, Len(u))
        scale == IF Len(decimals) = 1 THEN 100 ELSE IF Len(decimals) = 2 THEN 10 ELSE 1
    IN  IF field = <<>> THEN Null
        ELSE IF /\ Cardinality(dots) <= 1
                /\ AllDigits(whole)
                /\ (dots = {} \/ (AllDigits(decimals) /\ Len(decimals) <= 3))
        THEN LET a == DigitsValue(whole, 0) * 1000
                        + (IF dots = {} THEN 0 ELSE DigitsValue(decimals, 0) * scale)
             IN  Real(IF neg THEN 0 - a ELSE a)
        ELSE Unparsable

\* the column names of the claim, in its order
ColumnNames ==
    <<"date", "name", "rifle", "calibre", "bullet_weight", "distance", "elevation",
      "windage", "total_score", "v_count">>

NumericColumns == {"bullet_weight", "distance", "elevation", "windage", "total_score", "v_count"}

TextColumns == {"name", "rifle", "calibre"}

\* C17: the export has the header and one record per session, each of
\* exactly 23 fields; the header names the columns date, name, rifle,
\* calibre, bullet weight, distance, elevation, windage, total score,
\* V count, shot 1 .. shot 12, notes, and field j of a record is the
\* session's value of column j.
C17_TwentyThreeFields ==
    CsvExported =>
        LET parsed == CsvParse(csvContent) IN
        /\ Len(parsed) = Len(csvArgs.sessions) + 1
        /\ parsed[1] = headers
        /\ Len(headers) = 10 + NumShots + 1
        /\ \A k \in 1..Len(csvArgs.sessions) :
              LET session == csvArgs.sessions[k]
                  fields == parsed[k + 1]
              IN  /\ Len(fields) = 23
                  /\ fields[1] # <<>>
                  /\ \A j \in 2..10 :
                        IF ColumnNames[j] \in NumericColumns
                        THEN ParseNumber(fields[j]) = session[ColumnNames[j]]
                        ELSE fields[j] = session[ColumnNames[j]].s
                  /\ \A i \in 1..NumShots : fields[10 + i] = session.shots[i]
                  /\ fields[23] = (IF session.notes.present THEN session.notes.s ELSE <<>>)

\* a session without elevation, windage and notes whose name has a comma
\* and a line break
C17_Witness ==
    /\ CsvExported
    /\ Len(csvArgs.sessions) = 1
    /\ csvArgs.sessions[1].name = Text(<<",", "\n">>)
    /\ csvArgs.sessions[1].notes = NullText
    /\ Len(CsvParse(csvContent)[2]) = 23
    /\ Len(Split(csvContent, "\n")) = 3
    /\ Len(Split(csvContent, ",")) = 46

\* C18: a numeric column that is null is exported as the empty field, one
\* that is 0 as the field 0; no numeric field reads null.
C18_NullIsEmptyZeroIsZero ==
    CsvExported =>
        LET parsed == CsvParse(csvContent) IN
        \A k \in 1..Len(csvArgs.sessions) :
            \A j \in 5..10 :
                LET value == csvArgs.sessions[k][ColumnNames[j]]
                    field == parsed[k + 1][j]
                IN  /\ ~value.present => field = <<>>
                    /\ value = Real(0) => field = <<"0">>
                    /\ value.present => field # <<>>
                    /\ field # <<"n", "u", "l", "l">>

\* a session with no elevation and a windage of 0
C18_Witness ==
    /\ CsvExported
    /\ Len(csvArgs.sessions) = 1
    /\ csvArgs.sessions[1].elevation = Null
    /\ csvArgs.sessions[1].windage = Real(0)
    /\ CsvParse(csvContent)[2][7] = <<>>
    /\ CsvParse(csvContent)[2][8] = <<"0">>
    /\ CsvParse(csvContent)[2][9] = <<"0">>

----------------------------------------------------------------------------
(* The session routes, one request after the other, by any user:           *)
(* src/server/routes.ts (GET /api/sessions, GET /api/sessions/:id, POST,   *)
(* PUT, DELETE) over src/server/storage.ts (getSessions,                   *)
(* getFilteredSessions, getSession, createSession, updateSession,          *)
(* deleteSession). reply records req.session.userId, the route, :id, the   *)
(* status and the rows of the response body.                               *)

NoFilter == ""

NoReply == [user |-> NoUser, op |-> "none", id |-> 0, status |-> 0, rows |-> {}]

Reply(user, op, id, status, rows) ==
    [user |-> user, op |-> op, id |-> id, status |-> status, rows |-> rows]

\* a session in a response body
Sent(table, id) == [id |-> id, row |-> table[id]]

\* the request bodies of this section: complete, name only, empty, and one
\* whose shots have 13 entries
SessionBodies ==
    {MakeBody(keys, name, shots) :
        keys \in {{}, {"name"}, {"name", "shots"}},
        name \in Names,
        shots \in {ExampleShots, Fill(NumShots + 1, JSStr(<<"5">>))}}

InitSessions ==
    /\ db = [id \in SessionIds |-> NoSession]
    /\ reqShots = NoShots
    /\ res = NoResponse
    /\ reply = NoReply
    /\ dopeCards = <<>> /\ dopeRanges = <<>>
    /\ IdleScore /\ IdleForm /\ IdleDope /\ IdleEdit /\ IdleExport /\ IdleAuth /\ IdlePage

\* a getSessions that leaves the owner out of the WHERE clause
SessionsOf_AnyOwner(table, userId, name) ==
    {id \in SessionIds :
        /\ table[id] # NoSession
        /\ name # NoFilter => table[id].name = name}

\* getSessions(userId), and getFilteredSessions(filters, userId) with a
\* name filter (ilike '%name%'; the names here are single letters)
SessionsOf(table, userId, name) ==
    {id \in SessionIds :
        /\ table[id] # NoSession
        /\ table[id].userId = userId
        /\ name # NoFilter => table[id].name = name}

\* getSession(id, userId): the row with this id and this owner, if any
getSession(table, id, userId) == table[id] # NoSession /\ table[id].userId = userId

\* GET /api/sessions
ListSessions(user, name) ==
    /\ reply' = IF user = NoUser THEN Reply(user, "list", 0, 401, {})
                ELSE Reply(user, "list", 0, 200,
                           {Sent(db, id) : id \in SessionsOf(db, user, name)})
    /\ UNCHANGED <<dopeCards, dopeRanges, storeVars>>
    /\ UNCHANGED <<scoreVars, formVars, dopeVars, editVars, exportVars, authVars, pageVars>>

\* GET /api/sessions/:id
ReadSession(user, id) ==
    /\ reply' = IF user = NoUser THEN Reply(user, "read", id, 401, {})
                ELSE IF getSession(db, id, user) THEN Reply(user, "read", id, 200, {Sent(db, id)})
                ELSE Reply(user, "read", id, 404, {})
    /\ UNCHANGED <<dopeCards, dopeRanges, storeVars>>
    /\ UNCHANGED <<scoreVars, formVars, dopeVars, editVars, exportVars, authVars, pageVars>>

\* POST /api/sessions: res.status(201).json(session)
CreateSession(user, body) ==
    /\ handleSessionCreation(user, body)
    /\ reply' = Reply(user, "create", 0, res'.status,
                      {Sent(db', id) : id \in {i \in SessionIds : db[i] = NoSession /\ db'[i] # NoSession}})
    /\ UNCHANGED <<dopeCards, dopeRanges>>
    /\ UNCHANGED <<scoreVars, formVars, dopeVars, editVars, exportVars, authVars, pageVars>>

\* PUT /api/sessions/:id: res.json(session)
UpdateSession(user, id, body) ==
    /\ handleSessionUpdate(user, id, body)
    /\ reply' = Reply(user, "update", id, res'.status,
                      IF res'.status = 200 THEN {Sent(db', id)} ELSE {})
    /\ UNCHANGED <<dopeCards, dopeRanges>>
    /\ UNCHANGED <<scoreVars, formVars, dopeVars, editVars, exportVars, authVars, pageVars>>

\* DELETE /api/sessions/:id: deleteSession(id, userId), 204 or 404
DeleteSession(user, id) ==
    /\ IF user = NoUser
       THEN db' = db /\ reply' = Reply(user, "delete", id, 401, {})
       ELSE IF getSession(db, id, user)
       THEN /\ db' = [db EXCEPT ![id] = NoSession]
            /\ reply' = Reply(user, "delete", id, 204, {})
       ELSE db' = db /\ reply' = Reply(user, "delete", id, 404, {})
    /\ UNCHANGED <<reqShots, res, dopeCards, dopeRanges>>
    /\ UNCHANGED <<scoreVars, formVars, dopeVars, editVars, exportVars, authVars, pageVars>>

NextSessions ==
    \/ \E user \in Users \cup {NoUser}, name \in Names \cup {NoFilter} : ListSessions(user, name)
    \/ \E user \in Users \cup {NoUser}, id \in SessionIds : ReadSession(user, id)
    \/ \E user \in Users \cup {NoUser}, body \in SessionBodies : CreateSession(user, body)
    \/ \E user \in Users \cup {NoUser}, id \in SessionIds, body \in SessionBodies :
          UpdateSession(user, id, body)
    \/ \E user \in Users \cup {NoUser}, id \in SessionIds : DeleteSession(user, id)

SpecSessions == InitSessions /\ [][NextSessions]_vars

----------------------------------------------------------------------------
(* Claims about the isolation of sessions *)

\* the request of this step addresses a session of another user
OnForeignSession ==
    /\ reply'.user \in Users
    /\ reply'.id \in SessionIds
    /\ db[reply'.id] # NoSession
    /\ db[reply'.id].userId # reply'.user

\* no session of another user is changed or sent by the request of this step
ForeignUntouched ==
    /\ \A id \in SessionIds :
          (db[id] # NoSession /\ db[id].userId # reply'.user) => db'[id] = db[id]
    /\ \A s \in reply'.rows : s.row.userId = reply'.user

----------------------------------------------------------------------------
(* The DOPE routes, one request after the other, by any user:              *)
(* src/server/routes.ts (POST and DELETE /api/dope-cards,                  *)
(* GET and POST /api/dope-cards/:cardId/ranges, PUT and DELETE             *)
(* /api/dope-ranges/:id) over src/server/storage.ts. A card is its owner;  *)
(* a range row names its card.                                             *)

MaxCards == 2

CardIds == 1..MaxCards

NoCardRange == [cardId |-> 0, range |-> 0, elevation |-> Null, windage |-> Null]

\* the elevations of the request bodies; the range is 100, the windage null
ElevationWrites == {Null, Moa(1250)}

InitDopeApi ==
    /\ dopeCards = [id \in CardIds |-> NoUser]
    /\ dopeRanges = [id \in RangeIds |-> NoCardRange]
    /\ reply = NoReply
    /\ IdleScore /\ IdleForm /\ IdleStore /\ IdleDope /\ IdleEdit /\ IdleExport /\ IdleAuth /\ IdlePage

\* getDopeRanges(dopeCardId): where dope_card_id = dopeCardId
getDopeRanges(dopeCardId) ==
    {id \in RangeIds : dopeRanges[id] # NoCardRange /\ dopeRanges[id].cardId = dopeCardId}

\* POST /api/dope-cards: createDopeCard(data, req.session.userId)
PostDopeCard(user) ==
    /\ IF user = NoUser
       THEN dopeCards' = dopeCards /\ reply' = Reply(user, "createCard", 0, 401, {})
       ELSE \E id \in CardIds :
              /\ dopeCards[id] = NoUser
              /\ dopeCards' = [dopeCards EXCEPT ![id] = user]
              /\ reply' = Reply(user, "createCard", id, 201, {})
    /\ UNCHANGED <<dopeRanges, scoreVars, formVars, storeVars, dopeVars, editVars, exportVars, authVars, pageVars>>

\* DELETE /api/dope-cards/:id: deleteDopeCard(id, userId); the ranges of a
\* deleted card go with it (ON DELETE CASCADE)
DeleteDopeCard(user, id) ==
    /\ IF user = NoUser
       THEN /\ UNCHANGED <<dopeCards, dopeRanges>>
            /\ reply' = Reply(user, "deleteCard", id, 401, {})
       ELSE IF dopeCards[id] = user
       THEN /\ dopeCards' = [dopeCards EXCEPT ![id] = NoUser]
            /\ dopeRanges' = [r \in RangeIds |->
                                IF dopeRanges[r].cardId = id THEN NoCardRange ELSE dopeRanges[r]]
            /\ reply' = Reply(user, "deleteCard", id, 204, {})
       ELSE /\ UNCHANGED <<dopeCards, dopeRanges>>
            /\ reply' = Reply(user, "deleteCard", id, 404, {})
    /\ UNCHANGED <<scoreVars, formVars, storeVars, dopeVars, editVars, exportVars, authVars, pageVars>>

\* GET /api/dope-cards/:cardId/ranges
GetCardRanges(user, cardId) ==
    /\ reply' = IF user = NoUser THEN Reply(user, "readRanges", cardId, 401, {})
                ELSE Reply(user, "readRanges", cardId, 200,
                           {Sent(dopeRanges, id) : id \in getDopeRanges(cardId)})
    /\ UNCHANGED <<dopeCards, dopeRanges>>
    /\ UNCHANGED <<scoreVars, formVars, storeVars, dopeVars, editVars, exportVars, authVars, pageVars>>

\* POST /api/dope-cards/:cardId/ranges: createDopeRange(rangeData, cardId);
\* the insert fails on the foreign key when there is no such card (400)
PostCardRange(user, cardId, elevation) ==
    /\ IF user = NoUser
       THEN dopeRanges' = dopeRanges /\ reply' = Reply(user, "createRange", cardId, 401, {})
       ELSE IF dopeCards[cardId] = NoUser
       THEN dopeRanges' = dopeRanges /\ reply' = Reply(user, "createRange", cardId, 400, {})
       ELSE \E id \in RangeIds :
              /\ dopeRanges[id] = NoCardRange
              /\ dopeRanges' = [dopeRanges EXCEPT ![id] =
                    [cardId |-> cardId, range |-> 100, elevation |-> elevation, windage |-> Null]]
              /\ reply' = Reply(user, "createRange", cardId, 201, {Sent(dopeRanges', id)})
    /\ UNCHANGED <<dopeCards, scoreVars, formVars, storeVars, dopeVars, editVars, exportVars, authVars, pageVars>>

\* PUT /api/dope-ranges/:id with the body {elevation}: updateDopeRange(id,
\* rangeData), where id = :id
PutDopeRange(user, id, elevation) ==
    /\ IF user = NoUser
       THEN dopeRanges' = dopeRanges /\ reply' = Reply(user, "updateRange", id, 401, {})
       ELSE IF dopeRanges[id] = NoCardRange
       THEN dopeRanges' = dopeRanges /\ reply' = Reply(user, "updateRange", id, 404, {})
       ELSE /\ dopeRanges' = [dopeRanges EXCEPT ![id].elevation = elevation]
            /\ reply' = Reply(user, "updateRange", id, 200, {Sent(dopeRanges', id)})
    /\ UNCHANGED <<dopeCards, scoreVars, formVars, storeVars, dopeVars, editVars, exportVars, authVars, pageVars>>

\* DELETE /api/dope-ranges/:id: deleteDopeRange(id), where id = :id
DeleteDopeRange(user, id) ==
    /\ IF user = NoUser
       THEN dopeRanges' = dopeRanges /\ reply' = Reply(user, "deleteRange", id, 401, {})
       ELSE IF dopeRanges[id] = NoCardRange
       THEN dopeRanges' = dopeRanges /\ reply' = Reply(user, "deleteRange", id, 404, {})
       ELSE /\ dopeRanges' = [dopeRanges EXCEPT ![id] = NoCardRange]
            /\ reply' = Reply(user, "deleteRange", id, 204, {})
    /\ UNCHANGED <<dopeCards, scoreVars, formVars, storeVars, dopeVars, editVars, exportVars, authVars, pageVars>>

NextDopeApi ==
    \/ \E user \in Users \cup {NoUser} : PostDopeCard(user)
    \/ \E user \in Users \cup {NoUser}, id \in CardIds : DeleteDopeCard(user, id)
    \/ \E user \in Users \cup {NoUser}, cardId \in CardIds : GetCardRanges(user, cardId)
    \/ \E user \in Users \cup {NoUser}, cardId \in CardIds, elevation \in ElevationWrites :
          PostCardRange(user, cardId, elevation)
    \/ \E user \in Users \cup {NoUser}, id \in RangeIds, elevation \in ElevationWrites :
          PutDopeRange(user, id, elevation)
    \/ \E user \in Users \cup {NoUser}, id \in RangeIds : DeleteDopeRange(user, id)

SpecDopeApi == InitDopeApi /\ [][NextDopeApi]_vars

----------------------------------------------------------------------------
(* Claims about the isolation of DOPE ranges *)

RangeRoutes == {"readRanges", "createRange", "updateRange", "deleteRange"}

\* C20: a request of an authenticated user to a range route returns no
\* range of another user's card, changes or deletes none, and creates none
\* on another user's card.
C20_DopeRangesIsolated ==
    [][(reply'.user \in Users /\ reply'.op \in RangeRoutes) =>
          /\ \A s \in reply'.rows : dopeCards[s.row.cardId] = reply'.user
          /\ \A id \in RangeIds :
                (dopeRanges[id] # NoCardRange /\ dopeCards[dopeRanges[id].cardId] # reply'.user)
                    => dopeRanges'[id] = dopeRanges[id]
          /\ \A id \in RangeIds :
                (dopeRanges[id] = NoCardRange /\ dopeRanges'[id] # NoCardRange)
                    => dopeCards[dopeRanges'[id].cardId] = reply'.user]_vars

----------------------------------------------------------------------------
(* Login sessions and user management: requireAuth, requireAdmin, the
   authentication routes and the admin routes of server/routes.ts, in front
   of the session and DOPE routes above.  Every browser has its own
   req.session in the session store; the store is a table of its own and no
   foreign key ties it to the users table. *)

\* a users row the table does not hold: the id was never issued
NoAccount == [email |-> "", isAdmin |-> FALSE]

\* the row of an id whose user was deleted; gen_random_uuid() does not issue
\* an id twice, so the id stays out of use
Deleted == [email |-> "deleted", isAdmin |-> FALSE]

Account(isAdmin) == [email |-> "set", isAdmin |-> isAdmin]

\* getUser(id): the row, if the table holds one
getUser(id) == id # NoUser /\ users[id] \notin {NoAccount, Deleted}

\* req.session of a browser that never logged in, or logged out
NoLogin == [userId |-> NoUser, isAdmin |-> FALSE]

\* the browsers that send requests
Browsers == {"c1"}

\* the browsers stop adding rows once the sessions, dope_cards and
\* dope_ranges tables together hold MaxRows
MaxRows == 2

Rows ==
    Cardinality({id \in SessionIds : db[id] # NoSession})
    + Cardinality({id \in CardIds : dopeCards[id] # NoUser})
    + Cardinality({id \in RangeIds : dopeRanges[id] # NoCardRange})

\* browser c may send a request that adds a row
MayAdd(c) == logins[c].userId = NoUser \/ Rows < MaxRows

\* what a login request carries besides the email
Passwords == {"right", "wrong", "missing"}

\* the one request body of this section
AuthBody == MakeBody({"name", "shots"}, "a", ExampleShots)

\* the server starts on a database that holds one administrator
InitAuth ==
    /\ users = [id \in Users |-> IF id = "u1" THEN Account(TRUE) ELSE NoAccount]
    /\ logins = [c \in Browsers |-> NoLogin]
    /\ db = [id \in SessionIds |-> NoSession]
    /\ reqShots = NoShots
    /\ res = NoResponse
    /\ reply = NoReply
    /\ dopeCards = [id \in CardIds |-> NoUser]
    /\ dopeRanges = [id \in RangeIds |-> NoCardRange]
    /\ IdleScore /\ IdleForm /\ IdleDope /\ IdleEdit /\ IdleExport /\ IdlePage

\* a requireAdmin that looks at req.session.userId only
requireAdmin_AnyLogin(session) == session.userId # NoUser

\* requireAdmin lets the request pass: !(!userId || !isAdmin)
requireAdmin(session) == session.userId # NoUser /\ session.isAdmin

\* a destroy that leaves req.session as it was
destroy_Keep(session) == session

\* req.session.destroy()
destroy(session) == NoLogin

dataVars == <<db, reqShots, res, dopeCards, dopeRanges>>

\* POST /api/auth/login
Login(c, id, password) ==
    /\ IF password = "missing"
       THEN logins' = logins /\ reply' = Reply(logins[c].userId, "login", 0, 400, {})
       ELSE IF ~getUser(id) \/ password # "right"
       THEN logins' = logins /\ reply' = Reply(logins[c].userId, "login", 0, 401, {})
       ELSE /\ logins' = [logins EXCEPT ![c] = [userId |-> id, isAdmin |-> users[id].isAdmin]]
            /\ reply' = Reply(logins[c].userId, "login", 0, 200, {id})
    /\ UNCHANGED <<users, dataVars>>
    /\ UNCHANGED <<scoreVars, formVars, dopeVars, editVars, exportVars, pageVars>>

\* POST /api/auth/logout
Logout(c) ==
    /\ logins' = [logins EXCEPT ![c] = destroy(logins[c])]
    /\ reply' = Reply(logins[c].userId, "logout", 0, 200, {})
    /\ UNCHANGED <<users, dataVars>>
    /\ UNCHANGED <<scoreVars, formVars, dopeVars, editVars, exportVars, pageVars>>

\* GET /api/auth/me
GetMe(c) ==
    /\ reply' = IF logins[c].userId = NoUser THEN Reply(NoUser, "me", 0, 401, {})
                ELSE IF getUser(logins[c].userId)
                THEN Reply(logins[c].userId, "me", 0, 200, {logins[c].userId})
                ELSE Reply(logins[c].userId, "me", 0, 404, {})
    /\ UNCHANGED <<users, logins, dataVars>>
    /\ UNCHANGED <<scoreVars, formVars, dopeVars, editVars, exportVars, pageVars>>

\* GET /api/admin/users
AdminGetUsers(c) ==
    /\ reply' = IF requireAdmin(logins[c])
                THEN Reply(logins[c].userId, "users", 0, 200, {id \in Users : getUser(id)})
                ELSE Reply(logins[c].userId, "users", 0, 403, {})
    /\ UNCHANGED <<users, logins, dataVars>>
    /\ UNCHANGED <<scoreVars, formVars, dopeVars, editVars, exportVars, pageVars>>

\* POST /api/admin/users: insertUserSchema.parse and createUser; a body the
\* schema rejects and an email in use are both answered 400
AdminPostUser(c, isAdmin, accepted) ==
    /\ IF ~requireAdmin(logins[c])
       THEN users' = users /\ reply' = Reply(logins[c].userId, "createUser", 0, 403, {})
       ELSE IF ~accepted
       THEN users' = users /\ reply' = Reply(logins[c].userId, "createUser", 0, 400, {})
       ELSE \E id \in Users :
              /\ users[id] = NoAccount
              /\ users' = [users EXCEPT ![id] = Account(isAdmin)]
              /\ reply' = Reply(logins[c].userId, "createUser", 0, 201, {id})
    /\ UNCHANGED <<logins, dataVars>>
    /\ UNCHANGED <<scoreVars, formVars, dopeVars, editVars, exportVars, pageVars>>

\* a deleteUser on tables without ON DELETE CASCADE
deleteUser_RowOnly(id) ==
    /\ users' = [users EXCEPT ![id] = Deleted]
    /\ UNCHANGED <<db, dopeCards, dopeRanges>>

\* deleteUser(id): the row goes, and with it (ON DELETE CASCADE) the user's
\* sessions, the user's DOPE cards and the ranges of those cards
deleteUser(id) ==
    /\ users' = [users EXCEPT ![id] = Deleted]
    /\ db' = [s \in SessionIds |->
                IF db[s] # NoSession /\ db[s].userId = id THEN NoSession ELSE db[s]]
    /\ dopeCards' = [k \in CardIds |-> IF dopeCards[k] = id THEN NoUser ELSE dopeCards[k]]
    /\ dopeRanges' = [r \in RangeIds |->
                        IF dopeRanges[r] # NoCardRange /\ dopeCards[dopeRanges[r].cardId] = id
                        THEN NoCardRange ELSE dopeRanges[r]]

\* DELETE /api/admin/users/:id
AdminDeleteUser(c, id) ==
    /\ IF ~requireAdmin(logins[c])
       THEN /\ UNCHANGED <<users, db, dopeCards, dopeRanges>>
            /\ reply' = Reply(logins[c].userId, "deleteUser", 0, 403, {})
       ELSE IF ~getUser(id)
       THEN /\ UNCHANGED <<users, db, dopeCards, dopeRanges>>
            /\ reply' = Reply(logins[c].userId, "deleteUser", 0, 404, {})
       ELSE /\ deleteUser(id)
            /\ reply' = Reply(logins[c].userId, "deleteUser", 0, 204, {id})
    /\ UNCHANGED <<logins, reqShots, res>>
    /\ UNCHANGED <<scoreVars, formVars, dopeVars, editVars, exportVars, pageVars>>

\* the insert of a row whose user_id names no users row violates the
\* foreign key: the query throws an Error and the handler answers 400
OrphanInsert(c) == logins[c].userId # NoUser /\ ~getUser(logins[c].userId)

\* POST /api/sessions from browser c
PostSessionFrom(c, body) ==
    IF OrphanInsert(c) /\ SchemaOk(body, FALSE)
    THEN /\ reqShots' = BodyShots(body)
         /\ res' = [status |-> 400, scored |-> TRUE]
         /\ reply' = Reply(logins[c].userId, "create", 0, 400, {})
         /\ UNCHANGED <<db, dopeCards, dopeRanges, authVars>>
         /\ UNCHANGED <<scoreVars, formVars, dopeVars, editVars, exportVars, pageVars>>
    ELSE CreateSession(logins[c].userId, body)

\* POST /api/dope-cards from browser c
PostDopeCardFrom(c) ==
    IF OrphanInsert(c)
    THEN /\ reply' = Reply(logins[c].userId, "createCard", 0, 400, {})
         /\ UNCHANGED <<dataVars, authVars>>
         /\ UNCHANGED <<scoreVars, formVars, dopeVars, editVars, exportVars, pageVars>>
    ELSE PostDopeCard(logins[c].userId)

\* the session routes, called with the req.session.userId of browser c
SessionRequest(c) ==
    \/ ListSessions(logins[c].userId, NoFilter)
    \/ \E id \in SessionIds : ReadSession(logins[c].userId, id)
    \/ MayAdd(c) /\ PostSessionFrom(c, AuthBody)
    \/ \E id \in SessionIds : UpdateSession(logins[c].userId, id, AuthBody)
    \/ \E id \in SessionIds : DeleteSession(logins[c].userId, id)

\* the DOPE routes, called with the req.session.userId of browser c
DopeRequest(c) ==
    \/ MayAdd(c) /\ PostDopeCardFrom(c)
    \/ \E id \in CardIds : DeleteDopeCard(logins[c].userId, id)
    \/ \E cardId \in CardIds : GetCardRanges(logins[c].userId, cardId)
    \/ \E cardId \in CardIds : MayAdd(c) /\ PostCardRange(logins[c].userId, cardId, Null)
    \/ \E id \in RangeIds : PutDopeRange(logins[c].userId, id, Null)
    \/ \E id \in RangeIds : DeleteDopeRange(logins[c].userId, id)

\* the admin routes, called from browser c
AdminRequest(c) ==
    \/ AdminGetUsers(c)
    \/ \E isAdmin \in BOOLEAN, accepted \in BOOLEAN : AdminPostUser(c, isAdmin, accepted)
    \/ \E id \in Users : AdminDeleteUser(c, id)

NextAuth ==
    \/ \E c \in Browsers, id \in Users, password \in Passwords : Login(c, id, password)
    \/ \E c \in Browsers : Logout(c)
    \/ \E c \in Browsers : GetMe(c)
    \/ \E c \in Browsers : AdminRequest(c)
    \/ \E c \in Browsers : SessionRequest(c)
    \/ \E c \in Browsers : DopeRequest(c)

SpecAuth == InitAuth /\ [][NextAuth]_vars

----------------------------------------------------------------------------
(* Claims about login sessions *)

\* the rows of the three data tables and of the users table
Storage == <<db, dopeCards, dopeRanges, users>>

C22_AdminRemains ==
    \E id \in Users : getUser(id) /\ users[id].isAdmin

\* every sessions row and every dope_cards row names a row of the users
\* table, and every dope_ranges row names a row of the dope_cards table
ReferencesExist ==
    /\ \A s \in SessionIds : db[s] # NoSession => getUser(db[s].userId)
    /\ \A k \in CardIds : dopeCards[k] # NoUser => getUser(dopeCards[k])
    /\ \A r \in RangeIds :
          dopeRanges[r] # NoCardRange => dopeCards[dopeRanges[r].cardId] # NoUser

\* C23: a DELETE of user u answered 204 leaves no session of u, no DOPE card
\* of u and no range of a card of u; a DELETE of card k answered 204 leaves
\* no range of k; and after every step each session and each card names an
\* existing user and each range names an existing card.
C23_ReferentialIntegrity ==
    [][/\ ReferencesExist'
       /\ \A u \in Users :
            (reply'.op = "deleteUser" /\ reply'.status = 204 /\ reply'.rows = {u})
            => /\ \A s \in SessionIds : db'[s] = NoSession \/ db'[s].userId # u
               /\ \A k \in CardIds : dopeCards'[k] # u
               /\ \A r \in RangeIds :
                     (dopeRanges[r] # NoCardRange /\ dopeCards[dopeRanges[r].cardId] = u)
                     => dopeRanges'[r] = NoCardRange
       /\ \A k \in CardIds :
            (reply'.op = "deleteCard" /\ reply'.status = 204 /\ reply'.id = k)
            => \A r \in RangeIds : dopeRanges'[r].cardId # k
      ]_vars

\* a user who had stored a session was deleted, and no row is left
C23_Witness ==
    /\ reply.op = "deleteUser" /\ reply.status = 204
    /\ res.status = 201
    /\ Rows = 0

\* C29: a request from a browser whose req.session names a deleted user is
\* not answered with a success status, on the session, DOPE, admin and
\* /api/auth/me routes alike.
C29_DeletedUserRefused ==
    [][\A c \in Browsers :
        (/\ logins[c].userId # NoUser
         /\ users[logins[c].userId] = Deleted
         /\ (SessionRequest(c) \/ DopeRequest(c) \/ AdminRequest(c) \/ GetMe(c)))
        => reply'.status \notin {200, 201, 204}
      ]_vars

----------------------------------------------------------------------------
(* The dashboard: SessionFilters.updateFilter, the sessions query of
   pages/dashboard.tsx and handleExport with exportFilteredSessions of
   lib/exportUtils.ts.  A session is [name, rifle, distance, date]; texts are
   sequences of characters, a date is the text of an <input type="date">. *)

\* String.prototype.toLowerCase over the letters of this section
toLowerCase(str) ==
    [i \in 1..Len(str) |-> IF str[i] = "A" THEN "a" ELSE IF str[i] = "B" THEN "b" ELSE str[i]]

\* String.prototype.includes
includes(str, sub) ==
    \E i \in 1..(Len(str) - Len(sub) + 1) : SubSeq(str, i, i + Len(sub) - 1) = sub

RECURSIVE Like(_, _)
\* text LIKE pattern of PostgreSQL: % stands for any text, _ for any one
\* character
Like(text, pattern) ==
    IF pattern = <<>> THEN text = <<>>
    ELSE IF Head(pattern) = "%"
    THEN Like(text, Tail(pattern)) \/ (text # <<>> /\ Like(Tail(text), pattern))
    ELSE /\ text # <<>>
         /\ Head(pattern) = "_" \/ Head(pattern) = Head(text)
         /\ Like(Tail(text), Tail(pattern))

\* query.ilike(column, `%${value}%`): LIKE without regard to case
ilike(text, value) == Like(toLowerCase(text), <<"%">> \o toLowerCase(value) \o <<"%">>)

\* the place of a character of a date text in the collation
CharRank(c) == IF c = "-" THEN 0 ELSE DigitVal(c) + 1

RECURSIVE TextLte(_, _)
\* a <= b of two text values
TextLte(a, b) ==
    IF a = <<>> THEN TRUE
    ELSE IF b = <<>> THEN FALSE
    ELSE IF Head(a) # Head(b) THEN CharRank(Head(a)) < CharRank(Head(b))
    ELSE TextLte(Tail(a), Tail(b))

\* new Date("YYYY-MM-DD"): midnight UTC of that day, here as a day count
\* that grows with the calendar
NewDate(str) ==
    DigitsValue(SubSeq(str, 1, 4), 0) * 372
    + DigitsValue(SubSeq(str, 6, 7), 0) * 31
    + DigitsValue(SubSeq(str, 9, 10), 0)

Jan15 == <<"2", "0", "2", "5", "-", "0", "1", "-", "1", "5">>

Feb01 == <<"2", "0", "2", "5", "-", "0", "2", "-", "0", "1">>

\* a filter that is not set: '' and undefined are deleted from the filters,
\* and the distance "all" becomes NaN; all of them are falsy
NoText == <<>>

Session(name, rifle, distance, date) ==
    [name |-> name, rifle |-> rifle, distance |-> distance, date |-> date]

\* the sessions a user may have stored
StoredSessions ==
    {Session(<<"a", "-", "b">>, <<"r">>, 100, Jan15),
     Session(<<"A", "_", "b">>, <<"r">>, 300, Feb01),
     Session(<<"b">>, <<"B">>, 300, Jan15)}

MaxListed == 2

\* the sessions table of the logged-in user, newest first
SessionTables ==
    UNION {[1..n -> StoredSessions] : n \in 0..MaxListed}

NameFilters == {NoText, <<"a">>, <<"_">>, <<"B">>}

RifleFilters == {NoText, <<"r">>}

DistanceFilters == {0, 100, 300}

DateFilters == {NoText, Jan15, Feb01}

NoFilters ==
    [name |-> NoText, rifle |-> NoText, distance |-> 0, dateFrom |-> NoText, dateTo |-> NoText]

NoExport == [format |-> "none", rows |-> <<>>, count |-> 0]

InitDashboard ==
    /\ \E table \in SessionTables :
          dashboard = [table |-> table, filters |-> NoFilters,
                       sessions |-> Undefined, exported |-> NoExport]
    /\ display = <<>> /\ photo = <<>> /\ uploads = {}
    /\ IdleScore /\ IdleForm /\ IdleStore /\ IdleDope
    /\ IdleEdit /\ IdleExport /\ IdleApi /\ IdleAuth

\* the queryFn of the sessions query: the rows the chained filters keep, in
\* the order of the table
SessionsQuery(table, filters) ==
    LET Kept(s) ==
          /\ filters.name # NoText => ilike(s.name, filters.name)
          /\ filters.rifle # NoText => ilike(s.rifle, filters.rifle)
          /\ filters.distance # 0 => s.distance = filters.distance
          /\ filters.dateFrom # NoText => TextLte(filters.dateFrom, s.date)
          /\ filters.dateTo # NoText => TextLte(s.date, filters.dateTo)
    IN  SelectSeq(table, Kept)

\* exportFilteredSessions(sessions, filters, format): filteredSessions
exportFilteredSessions(sessions, filters) ==
    LET Kept(s) ==
          /\ filters.name # NoText => includes(toLowerCase(s.name), toLowerCase(filters.name))
          /\ filters.rifle # NoText => includes(toLowerCase(s.rifle), toLowerCase(filters.rifle))
          /\ filters.distance # 0 => s.distance = filters.distance
          /\ filters.dateFrom # NoText => NewDate(s.date) >= NewDate(filters.dateFrom)
          /\ filters.dateTo # NoText => NewDate(s.date) <= NewDate(filters.dateTo)
    IN  SelectSeq(sessions, Kept)

\* SessionFilters.updateFilter(key, value) and onFiltersChange: the query
\* key changes, and the list waits for the rows of the new key
updateFilter(key, value) ==
    /\ dashboard' = [dashboard EXCEPT !.filters = [@ EXCEPT ![key] = value],
                                      !.sessions = Undefined,
                                      !.exported = NoExport]
    /\ UNCHANGED <<display, photo, uploads>>
    /\ UNCHANGED <<scoreVars, formVars, storeVars, dopeVars, editVars, exportVars, apiVars, authVars>>

\* the sessions query settles
QuerySessions ==
    /\ ~dashboard.sessions.loaded
    /\ dashboard' = [dashboard EXCEPT !.sessions =
                        [loaded |-> TRUE,
                         data |-> SessionsQuery(dashboard.table, dashboard.filters)]]
    /\ UNCHANGED <<display, photo, uploads>>
    /\ UNCHANGED <<scoreVars, formVars, storeVars, dopeVars, editVars, exportVars, apiVars, authVars>>

\* handleExport(format): nothing is exported while sessions is undefined or
\* empty; otherwise the toast reports exportFilteredSessions' return value
handleExport(format) ==
    /\ dashboard' = [dashboard EXCEPT !.exported =
          IF ~dashboard.sessions.loaded \/ dashboard.sessions.data = <<>>
          THEN NoExport
          ELSE LET rows == exportFilteredSessions(dashboard.sessions.data, dashboard.filters)
               IN  [format |-> format, rows |-> rows, count |-> Len(rows)]]
    /\ UNCHANGED <<display, photo, uploads>>
    /\ UNCHANGED <<scoreVars, formVars, storeVars, dopeVars, editVars, exportVars, apiVars, authVars>>

NextDashboard ==
    \/ \E value \in NameFilters : updateFilter("name", value)
    \/ \E value \in RifleFilters : updateFilter("rifle", value)
    \/ \E value \in DistanceFilters : updateFilter("distance", value)
    \/ \E key \in {"dateFrom", "dateTo"}, value \in DateFilters : updateFilter(key, value)
    \/ QuerySessions
    \/ \E format \in {"csv", "pdf"} : handleExport(format)

SpecDashboard == InitDashboard /\ [][NextDashboard]_vars

\* C24: an export holds exactly the sessions the dashboard lists, and
\* reports their number.
C24_ExportMatchesList ==
    dashboard.exported.format # "none"
    => /\ dashboard.exported.rows = dashboard.sessions.data
       /\ dashboard.exported.count = Len(dashboard.sessions.data)

----------------------------------------------------------------------------
(* Where one elevation and one windage are shown: the session detail modal,
   the PDF and CSV session exports, the DOPE card table and the DOPE text
   export.  A value is null or a number in thousandths. *)

NotApplicable == <<"N", "/", "A">>

\* `${value || 'N/A'}`: the text of the number, or N/A when the value is
\* falsy (null, undefined and 0)
orNA(value) ==
    IF ~value.present \/ value.v = 0 THEN NotApplicable ELSE numberToString(value.v)

\* session-detail-modal.tsx: {session.elevation || 'N/A'} MOA
detailText(value) == orNA(value) \o <<" ", "M", "O", "A">>

\* exportToPDF: `Elevation: ${session.elevation || 'N/A'} MOA | Windage:
\* ${session.windage || 'N/A'} MOA`
pdfDetail(session) ==
    <<"E", "l", "e", "v", "a", "t", "i", "o", "n", ":", " ">> \o orNA(session.elevation) \o <<" ", "M", "O", "A", " ", "|", " ", "W", "i", "n", "d", "a", "g", "e", ":", " ">>
        \o orNA(session.windage) \o <<" ", "M", "O", "A">>

\* the elevations and windages shown
ShownValues == {Null, Moa(0), Moa(1250), Moa(-500)}

NotShown == <<>>

InitDisplay ==
    /\ \E elevation \in ShownValues, windage \in ShownValues :
          display = [elevation |-> elevation, windage |-> windage,
                     detail |-> NotShown, pdf |-> NotShown, csv |-> NotShown,
                     dopeTable |-> NotShown, dopeText |-> NotShown]
    /\ dashboard = <<>> /\ photo = <<>> /\ uploads = {}
    /\ IdleScore /\ IdleForm /\ IdleStore /\ IdleDope
    /\ IdleEdit /\ IdleExport /\ IdleApi /\ IdleAuth

\* the session detail modal opens on the session
ViewDetail ==
    /\ display' = [display EXCEPT !.detail =
                      <<detailText(display.elevation), detailText(display.windage)>>]
    /\ UNCHANGED <<dashboard, photo, uploads>>
    /\ UNCHANGED <<scoreVars, formVars, storeVars, dopeVars, editVars, exportVars, apiVars, authVars>>

\* exportToPDF writes the details of the session
ExportPdf ==
    /\ display' = [display EXCEPT !.pdf = <<pdfDetail(display)>>]
    /\ UNCHANGED <<dashboard, photo, uploads>>
    /\ UNCHANGED <<scoreVars, formVars, storeVars, dopeVars, editVars, exportVars, apiVars, authVars>>

\* exportToCSV writes the Elevation and Windage fields of the session
ExportCsv ==
    /\ display' = [display EXCEPT !.csv =
                      <<optionalToString(display.elevation), optionalToString(display.windage)>>]
    /\ UNCHANGED <<dashboard, photo, uploads>>
    /\ UNCHANGED <<scoreVars, formVars, storeVars, dopeVars, editVars, exportVars, apiVars, authVars>>

\* DopeCardDetail renders the row of a range with these values
ViewDopeRow ==
    /\ display' = [display EXCEPT !.dopeTable =
                      <<Cell(display.elevation), Cell(display.windage)>>]
    /\ UNCHANGED <<dashboard, photo, uploads>>
    /\ UNCHANGED <<scoreVars, formVars, storeVars, dopeVars, editVars, exportVars, apiVars, authVars>>

\* generateAsciiTable writes the row of a range with these values
ExportDopeRow ==
    /\ display' = [display EXCEPT !.dopeText =
                      <<dataRow([range |-> 100, elevation |-> display.elevation,
                                 windage |-> display.windage])>>]
    /\ UNCHANGED <<dashboard, photo, uploads>>
    /\ UNCHANGED <<scoreVars, formVars, storeVars, dopeVars, editVars, exportVars, apiVars, authVars>>

NextDisplay ==
    \/ ViewDetail
    \/ ExportPdf
    \/ ExportCsv
    \/ ViewDopeRow
    \/ ExportDopeRow

SpecDisplay == InitDisplay /\ [][NextDisplay]_vars

\* C25: an elevation or windage of exactly 0 is shown as the number 0 in the
\* DOPE card table (0.00 MOA), the DOPE text export (0.0), the session detail
\* view (0 MOA) and the CSV (0) and PDF (0 MOA) session exports.
C25_ZeroIsShown ==
    LET zeroE == display.elevation = Moa(0)
        zeroW == display.windage = Moa(0)
    IN
    /\ display.dopeTable # NotShown =>
          /\ zeroE => display.dopeTable[1] = [dash |-> FALSE, text |-> 0]
          /\ zeroW => display.dopeTable[2] = [dash |-> FALSE, text |-> 0]
    /\ display.dopeText # NotShown =>
          /\ zeroW => SubSeq(display.dopeText[1], 11, 16) = <<" ", " ", " ", "0", ".", "0">>
          /\ zeroE => SubSeq(display.dopeText[1], 20, 26) = <<" ", " ", " ", " ", "0", ".", "0">>
    /\ display.csv # NotShown =>
          /\ zeroE => display.csv[1] = <<"0">>
          /\ zeroW => display.csv[2] = <<"0">>
    /\ display.detail # NotShown =>
          /\ zeroE => display.detail[1] = <<"0", " ", "M", "O", "A">>
          /\ zeroW => display.detail[2] = <<"0", " ", "M", "O", "A">>
    /\ display.pdf # NotShown =>
          /\ zeroE => SubSeq(display.pdf[1], 1, 16) = <<"E", "l", "e", "v", "a", "t", "i", "o", "n", ":", " ", "0", " ", "M", "O", "A">>
          /\ zeroW => \E i \in 1..Len(display.pdf[1]) :
                         SubSeq(display.pdf[1], i, Len(display.pdf[1])) = <<"W", "i", "n", "d", "a", "g", "e", ":", " ", "0", " ", "M", "O", "A">>

----------------------------------------------------------------------------
(* The photo of the session form: photoFile and deleteExistingPhoto of
   SessionForm, preview and showExisting of PhotoUpload, the FileReader that
   loads the preview, and the photo_url that sessionMutation saves. *)

NoFile == "none"

Files == {"f1.jpg", "f2.jpg"}

\* editSession.photo_url of a session that has a photo
OldPhoto == "old.jpg"

\* the publicUrl of an uploaded file
publicUrl(file) == <<"session-photos", file>>

\* no mutation has run
NotSaved == <<"not saved">>

\* the form opens: on a new session, on a session without photo, or on a
\* session with a photo
InitPhoto ==
    /\ \E isEditingSession \in BOOLEAN, existing \in {NoFile, OldPhoto} :
          /\ ~isEditingSession => existing = NoFile
          /\ photo = [isOpen |-> TRUE,
                      isEditing |-> isEditingSession,
                      existingPhotoUrl |-> existing,
                      photoFile |-> NoFile,
                      deleteExistingPhoto |-> FALSE,
                      preview |-> NoFile,
                      showExisting |-> TRUE,
                      reading |-> NoFile,
                      saved |-> NotSaved]
    /\ dashboard = <<>> /\ display = <<>> /\ uploads = {}
    /\ IdleScore /\ IdleForm /\ IdleStore /\ IdleDope
    /\ IdleEdit /\ IdleExport /\ IdleApi /\ IdleAuth

\* what the widget renders: the preview, else the existing photo, else the
\* camera icon
Displayed(p) ==
    IF p.preview # NoFile THEN publicUrl(p.preview)
    ELSE IF p.showExisting /\ p.existingPhotoUrl # NoFile THEN <<p.existingPhotoUrl>>
    ELSE <<>>

\* photoUrl of sessionMutation.mutationFn; <<>> is null
photoUrl(p) ==
    IF p.photoFile # NoFile THEN publicUrl(p.photoFile)
    ELSE IF p.isEditing /\ ~p.deleteExistingPhoto /\ p.existingPhotoUrl # NoFile
    THEN <<p.existingPhotoUrl>>
    ELSE <<>>

framePhoto ==
    /\ UNCHANGED <<dashboard, display, uploads>>
    /\ UNCHANGED <<scoreVars, formVars, storeVars, dopeVars, editVars, exportVars, apiVars, authVars>>

\* handleFileChange(file) with a file: the reader starts and onFileSelect
\* sets photoFile
SelectFile(file) ==
    /\ photo.isOpen
    /\ photo' = [photo EXCEPT !.reading = file, !.photoFile = file]
    /\ framePhoto

\* reader.onloadend
ReaderLoaded ==
    /\ photo.isOpen /\ photo.reading # NoFile
    /\ photo' = [photo EXCEPT !.preview = photo.reading, !.showExisting = FALSE,
                              !.reading = NoFile]
    /\ framePhoto

\* handleFileChange(null): the X of the preview, or a file dialog closed
\* without a file
RemoveFile ==
    /\ photo.isOpen
    /\ photo.preview # NoFile \/ photo.photoFile # NoFile
    /\ photo' = [photo EXCEPT !.preview = NoFile,
                              !.showExisting = (photo.existingPhotoUrl # NoFile),
                              !.photoFile = NoFile]
    /\ framePhoto

\* handleDeleteExisting: the X of the existing photo
handleDeleteExisting ==
    /\ photo.isOpen
    /\ photo.preview = NoFile /\ photo.showExisting /\ photo.existingPhotoUrl # NoFile
    /\ photo' = [photo EXCEPT !.showExisting = FALSE, !.preview = NoFile,
                              !.deleteExistingPhoto = TRUE, !.photoFile = NoFile]
    /\ framePhoto

\* Save: sessionMutation.mutationFn and onSuccess
SavePhoto ==
    /\ photo.isOpen
    /\ photo' = [photo EXCEPT !.saved = photoUrl(photo),
                              !.photoFile = NoFile,
                              !.deleteExistingPhoto = FALSE,
                              !.isOpen = FALSE]
    /\ framePhoto

NextPhoto ==
    \/ \E file \in Files : SelectFile(file)
    \/ ReaderLoaded
    \/ RemoveFile
    \/ handleDeleteExisting
    \/ SavePhoto

SpecPhoto == InitPhoto /\ [][NextPhoto]_vars

\* C26: when an edit form whose preview has finished loading is saved, the
\* saved photo_url is the photo the widget showed: the new file if its
\* preview was shown, the existing photo if that was shown, null if none.
C26_SavedPhotoIsShownPhoto ==
    [][(photo.isOpen /\ ~photo'.isOpen /\ photo.isEditing /\ photo.reading = NoFile)
          => photo'.saved = Displayed(photo)]_vars

----------------------------------------------------------------------------
(* Photo uploads: the multipart branch of POST /api/sessions and of PUT
   /api/sessions/:id.  upload.single('photo') stores the file in uploads/
   under a new name before handleSessionCreation(req, res, true) or
   handleSessionUpdate(req, res, true) runs; requireAuth runs before it. *)

FileNames == {"f1", "f2", "f3"}

\* the sessionData field of the form: a JSON text, a text that is no JSON,
\* or no such field
UploadForms ==
    {[sessionData |-> "json", body |-> b] :
        b \in {AuthBody,
               MakeBody({"name"}, "b", ExampleShots),
               MakeBody({"name", "shots"}, "a", Fill(NumShots + 1, JSStr(<<"5">>)))}}
    \cup {[sessionData |-> "malformed", body |-> <<>>],
          [sessionData |-> "missing", body |-> <<>>]}

\* a sessions row with its photo_url: `/uploads/${req.file.filename}`
WithPhoto(row, filename) ==
    [k \in DOMAIN row \cup {"photoUrl"} |-> IF k = "photoUrl" THEN filename ELSE row[k]]

InitUpload ==
    /\ db = [id \in SessionIds |-> NoSession]
    /\ reqShots = NoShots
    /\ res = NoResponse
    /\ uploads = {}
    /\ dashboard = <<>> /\ display = <<>> /\ photo = <<>>
    /\ IdleScore /\ IdleForm /\ IdleDope /\ IdleEdit /\ IdleExport /\ IdleApi /\ IdleAuth

frameUpload ==
    /\ UNCHANGED <<dashboard, display, photo>>
    /\ UNCHANGED <<scoreVars, formVars, dopeVars, editVars, exportVars, apiVars, authVars>>

\* POST /api/sessions, multipart, with the file stored as filename
PostSessionPhoto(user, form, filename) ==
    /\ filename \notin uploads
    /\ reqShots' = NoShots
    /\ IF user = NoUser
       THEN res' = [status |-> 401, scored |-> FALSE] /\ UNCHANGED <<db, uploads>>
       ELSE IF form.sessionData # "json" \/ ~SchemaOk(form.body, FALSE)
       THEN \* catch: fs.unlink(req.file.path)
            /\ res' = [status |-> 400, scored |-> FALSE]
            /\ UNCHANGED <<db, uploads>>
       ELSE \E id \in SessionIds :
              /\ db[id] = NoSession
              /\ db' = [db EXCEPT ![id] =
                          WithPhoto(createSession_Row(Validated(form.body), user), filename)]
              /\ uploads' = uploads \cup {filename}
              /\ res' = [status |-> 201, scored |-> TRUE]
    /\ frameUpload

\* PUT /api/sessions/:id, multipart, with the file stored as filename
PutSessionPhoto(user, id, form, filename) ==
    /\ filename \notin uploads
    /\ reqShots' = NoShots
    /\ IF user = NoUser
       THEN res' = [status |-> 401, scored |-> FALSE] /\ UNCHANGED <<db, uploads>>
       ELSE IF form.sessionData = "malformed"
               \/ (form.sessionData = "json" /\ ~SchemaOk(form.body, TRUE))
       THEN \* catch: fs.unlink(req.file.path)
            /\ res' = [status |-> 400, scored |-> FALSE]
            /\ UNCHANGED <<db, uploads>>
       ELSE LET data == IF form.sessionData = "json" THEN Validated(form.body) ELSE <<>>
                found == db[id] # NoSession /\ db[id].userId = user
            IN  IF found
                THEN /\ db' = [db EXCEPT ![id] =
                                  [updateSession_Row(db[id], data) EXCEPT !.photoUrl = filename]]
                     /\ uploads' = uploads \cup {filename}
                     /\ res' = [status |-> 200, scored |-> "shots" \in DOMAIN data]
                ELSE \* return res.status(404): the file stays
                     /\ db' = db
                     /\ uploads' = uploads \cup {filename}
                     /\ res' = [status |-> 404, scored |-> "shots" \in DOMAIN data]
    /\ frameUpload

NextUpload ==
    \/ \E user \in Users \cup {NoUser}, form \in UploadForms, filename \in FileNames :
          PostSessionPhoto(user, form, filename)
    \/ \E user \in Users \cup {NoUser}, id \in SessionIds, form \in UploadForms,
          filename \in FileNames :
          PutSessionPhoto(user, id, form, filename)

SpecUpload == InitUpload /\ [][NextUpload]_vars

\* C27: a file that a request leaves in the uploads directory is the photo
\* of a stored session.
C27_NoOrphanUpload ==
    [][\A filename \in FileNames :
          (filename \notin uploads /\ filename \in uploads')
          => \E id \in SessionIds : db'[id] # NoSession /\ db'[id].photoUrl = filename
      ]_vars

----------------------------------------------------------------------------
(* Claims about updates that carry no shots *)

\* the request bodies that carry no shots
BodiesWithoutShots == {body \in Bodies : "shots" \notin DOMAIN body}

\* what a PUT /api/sessions/:id without shots may do to the table
UpdateFrame(user, id, body) ==
    LET found == db[id] # NoSession /\ db[id].userId = user
    IN  /\ \A other \in SessionIds \ {id} : db'[other] = db[other]
        /\ found =>
             /\ db'[id] # NoSession
             /\ db'[id].shots = db[id].shots
             /\ db'[id].totalScore = db[id].totalScore
             /\ db'[id].vCount = db[id].vCount
             /\ db'[id].userId = db[id].userId
             /\ db'[id].name = IF "name" \in DOMAIN body /\ res'.status = 200
                               THEN body["name"][1] ELSE db[id].name
        /\ ~found => db' = db

----------------------------------------------------------------------------
(* Claims about the edit mode of the DOPE card editor *)

\* editingRange && editingRange.range === range: row i of client c's table
\* shows its inputs and the Save and Cancel buttons
InEditMode(editingRange, i) ==
    editingRange.open /\ editingRange.range = STANDARD_RANGES[i]

RowsInEditMode(editingRange) ==
    {i \in 1..Len(STANDARD_RANGES) : InEditMode(editingRange, i)}

\* C30: Edit on the row of a standard distance d puts exactly that row in
\* edit mode with range d and the id of the entry the row shows, typing
\* keeps both, and Save then updates that entry, or creates one when the
\* row shows none, with range d; at most one row is in edit mode, and none
\* after a save or Cancel.
C30_EditModeFollowsRow ==
    [][\A c \in Clients :
        LET e == clients[c].editingRange
            after == clients'[c].editingRange
        IN  /\ Cardinality(RowsInEditMode(after)) <= 1
            /\ \A i \in EditRows :
                  handleEditRange(c, i) =>
                     LET row == rangeData(clients[c].ranges)[i] IN
                     /\ RowsInEditMode(after) = {i}
                     /\ after.range = STANDARD_RANGES[i]
                     /\ after.id = row.data.id
            /\ (e.open /\ after.open /\ ~\E i \in EditRows : handleEditRange(c, i))
                  => after.range = e.range /\ after.id = e.id
            /\ handleSaveRange(c) =>
                  /\ RowsInEditMode(after) = {}
                  /\ \E id \in RangeIds :
                        /\ dopeDb'[id].range = e.range
                        /\ dopeDb'[id].elevation = e.elevation
                        /\ dopeDb'[id].windage = e.windage
                        /\ \A other \in RangeIds \ {id} : dopeDb'[other] = dopeDb[other]
                        /\ IF e.id # 0 THEN id = e.id ELSE dopeDb[id] = NoRange
            /\ CancelEdit(c) => RowsInEditMode(after) = {} /\ dopeDb' = dopeDb
      ]_vars

\* Edit on the empty 1200 row, a typed elevation and Save have created the
\* entry of 1200 yards, and no row is in edit mode
C30_Witness ==
    /\ \A c \in Clients : RowsInEditMode(clients[c].editingRange) = {}
    /\ \E id \in RangeIds :
          /\ dopeDb[id].range = 1200
          /\ dopeDb[id].elevation = Moa(1250)

\* the editor of one browser: the other browser leaves the card alone
Editor == "c1"

NextEditor ==
    \/ LoadRanges(Editor)
    \/ \E i \in EditRows : handleEditRange(Editor, i)
    \/ \E value \in TypedValues : ChangeElevation(Editor, value)
    \/ CancelEdit(Editor)
    \/ handleSaveRange(Editor)

SpecEditor == InitEdit /\ [][NextEditor]_vars

====
